---- MODULE Spec2Model ----
(***************************************************************************)
(* SecondBrain: the ingestion pipeline, document deletion and hybrid       *)
(* retrieval over one PostgreSQL database, plus the pure chunkers.         *)
(*                                                                         *)
(* Every request runs in its own AsyncSession (db/database.py get_db).     *)
(* A session's flushed rows live in its transaction (tx) and become part   *)
(* of the stored tables (db) only at session.commit(); session.close()     *)
(* without a commit rolls the transaction back.  Every await of a handler  *)
(* is a point where another request may run or the request be cancelled.   *)
(***************************************************************************)
EXTENDS Integers, Sequences, FiniteSets, TLC

\* ---------------------------------------------------------------- bounds
MaxReq    == 2      \* requests in flight at once
MaxDocs   == 2      \* ingestions ever started (ids are never reused)
MaxChunks == 1      \* chunks the chunker yields for one document
TopK      == 1      \* top_k passed to retrieve

Users       == {"u1", "u2"}
Reqs        == 1..MaxReq
SourceKinds == {"text", "url", "audio", "document"}

Min(a, b) == IF a <= b THEN a ELSE b

\* ------------------------------------------------------------ row shapes

\* models.py JobStage, in declaration order
JobStage == <<"RECEIVED", "EXTRACTED", "CHUNKED", "EMBEDDED", "INDEXED">>

StageRank(s) == CHOOSE i \in 1..Len(JobStage) : JobStage[i] = s

\* The four tables an ingestion writes, keyed by __tablename__.
EmptyTables ==
    [documents |-> {}, ingestion_jobs |-> {}, chunks |-> {}, chunk_embeddings |-> {}]

NoDocument ==
    [id |-> 0, user_id |-> "", status |-> "", ingested_at |-> FALSE,
     source_uri |-> 0]

NoJob ==
    [id |-> 0, document_id |-> 0, user_id |-> "", status |-> "", stage |-> "",
     error |-> ""]

\* Document(...) as each ingest path constructs it: status RUNNING, ingested_at
\* unset, source_uri the staged file for audio and document files (0: a URL
\* or none).  The columns no operation here reads are left out.
Document(id, u, kind) ==
    [id |-> id, user_id |-> u, status |-> "RUNNING", ingested_at |-> FALSE,
     source_uri |-> IF kind \in {"audio", "document"} THEN id ELSE 0]

\* (mutant) every job created at the column default, RECEIVED
InitialStageDefault(kind) == "RECEIVED"

\* The stage a job is created with: RECEIVED in ingest_text and _ingest_audio,
\* EXTRACTED in ingest_url and _ingest_document (extraction ran before the job).
InitialStage(kind) ==
    IF kind \in {"text", "audio"} THEN "RECEIVED" ELSE "EXTRACTED"

IngestionJob(id, u, kind) ==
    [id |-> id, document_id |-> id, user_id |-> u, status |-> "RUNNING",
     stage |-> InitialStage(kind), error |-> ""]

\* Chunk(document_id=doc.id, user_id=user_id, chunk_index=...)
Chunk(docId, u, i) ==
    [id |-> <<docId, i>>, document_id |-> docId, user_id |-> u, chunk_index |-> i]

ChunkEmbedding(c) == [chunk_id |-> c.id]

\* ------------------------------------------------------------------ state
VARIABLES
    db,       \* the committed tables, what every other session can read
    files,    \* staged files under upload_dir, named by the id in their path
    nextId,   \* next unused uuid
    pc,       \* pc[r]: where request r stands
    rq,       \* rq[r]: the request's inputs and loop counters
    mem,      \* mem[r]: the handler's Document and IngestionJob objects
    tx,       \* tx[r]: rows of the session's open transaction
    stages,   \* stages[r]: the stages the job row of r has been flushed with
    res,      \* res[r]: result lists of a retrieval
    call      \* one call of a chunker: its arguments and the list it returns

system == <<db, files, nextId, pc, rq, mem, tx, stages, res>>

vars == <<system, call>>

NoRequest ==
    [op |-> "none", user_id |-> "", kind |-> "", id |-> 0,
     nchunks |-> 0, nemb |-> 0, written |-> 0]

NoObjects == [doc |-> NoDocument, job |-> NoJob]

NoResults == [vector |-> {}, text |-> {}, merged |-> {}]

NoCall ==
    [fn |-> "none", text |-> <<>>, splits |-> <<>>, page_boundaries |-> <<>>,
     segments |-> <<>>, target_duration_ms |-> 0,
     returned |-> FALSE, chunks |-> <<>>,
     stored |-> FALSE, base_time |-> <<>>, rows |-> <<>>,
     query |-> <<>>, reference_time |-> <<>>, parsed |-> <<>>,
     user_id |-> "", table |-> {}, interval |-> <<>>, searched |-> {},
     vector_results |-> {}, text_results |-> {},
     top_k |-> 0, dense |-> <<>>, sparse_rows |-> <<>>, sparse |-> <<>>,
     sparse_failed |-> FALSE, raised |-> FALSE, passages |-> <<>>,
     tokens |-> <<>>, citations |-> <<>>, produced |-> 0, exhausted |-> FALSE,
     full_response |-> <<>>, events |-> <<>>, messages |-> <<>>,
     cancelled_at |-> "", title |-> <<>>, doc_title |-> <<>>,
     pages |-> <<>>, pdfplumber_fails |-> FALSE,
     users |-> {}, email |-> <<>>, step |-> <<>>, user |-> <<>>,
     texts |-> <<>>, response |-> <<>>, embeddings |-> <<>>,
     completed |-> FALSE]

SystemInit ==
    /\ db = EmptyTables
    /\ files = {}
    /\ nextId = 1
    /\ pc = [r \in Reqs |-> "idle"]
    /\ rq = [r \in Reqs |-> NoRequest]
    /\ mem = [r \in Reqs |-> NoObjects]
    /\ tx = [r \in Reqs |-> EmptyTables]
    /\ stages = [r \in Reqs |-> <<>>]
    /\ res = [r \in Reqs |-> NoResults]

Init ==
    /\ SystemInit
    /\ call = NoCall

\* ---------------------------------------------------- session operations

\* session.commit(): the transaction's rows join the stored tables.
CommitSession(tables, t) ==
    [documents        |-> tables.documents \cup t.documents,
     ingestion_jobs   |-> tables.ingestion_jobs \cup t.ingestion_jobs,
     chunks           |-> tables.chunks \cup t.chunks,
     chunk_embeddings |-> tables.chunk_embeddings \cup t.chunk_embeddings]

\* (mutant) a session that commits what it holds when it is closed
CloseSessionCommitting(tables, t) == CommitSession(tables, t)

\* get_db's finally: session.close() with no commit discards the transaction.
CloseSession(tables, t) == tables

\* (mutant) an except-branch that forgets doc.status
ExceptHandlerJobOnly(m) ==
    [doc |-> m.doc,
     job |-> [m.job EXCEPT !.status = "FAILED", !.error = "error"]]

\* The except-branch of every ingest path: job FAILED with str(e), doc FAILED.
ExceptHandler(m) ==
    [doc |-> [m.doc EXCEPT !.status = "FAILED"],
     job |-> [m.job EXCEPT !.status = "FAILED", !.error = "error"]]

\* (mutant) "Mark complete" without doc.ingested_at
MarkCompleteWithoutIngestedAt(m) ==
    [doc |-> [m.doc EXCEPT !.status = "COMPLETED"],
     job |-> [m.job EXCEPT !.status = "COMPLETED"]]

\* The "Mark complete" lines that follow _update_job_stage(job, INDEXED).
MarkComplete(m) ==
    [doc |-> [m.doc EXCEPT !.status = "COMPLETED", !.ingested_at = TRUE],
     job |-> [m.job EXCEPT !.status = "COMPLETED"]]

\* flush of the dirty Document and IngestionJob objects into the transaction
FlushObjects(t, m) ==
    [t EXCEPT !.documents = {m.doc}, !.ingestion_jobs = {m.job}]

\* An exception that leaves the handler: the session is closed uncommitted.
Abort(r, objects) ==
    /\ mem' = [mem EXCEPT ![r] = objects]
    /\ db' = CloseSession(db, tx[r])
    /\ tx' = [tx EXCEPT ![r] = EmptyTables]
    /\ pc' = [pc EXCEPT ![r] = "failed"]

\* raised inside the try block / outside of it
RaiseInTry(r)    == Abort(r, ExceptHandler(mem[r]))
RaiseOutsideTry(r) == Abort(r, mem[r])

Goto(r, label) == pc' = [pc EXCEPT ![r] = label]

\* ------------------------------------------------- ingestion (pipeline.py)

InFlight(r) == pc[r] \notin {"idle", "done", "failed", "cancelled"}

\* POST /ingest/text, /ingest/url, /ingest/file: the handler builds the
\* pipeline on the request's session; uuid4 names the document (and the
\* staged file).  A file with another source_type is read and handed to
\* ingest_text, which is the "text" path.
BeginIngest(r, u, kind) ==
    /\ pc[r] = "idle"
    /\ nextId <= MaxDocs
    /\ rq' = [rq EXCEPT ![r] = [NoRequest EXCEPT !.op = "ingest", !.user_id = u,
                                                 !.kind = kind, !.id = nextId]]
    /\ nextId' = nextId + 1
    /\ Goto(r, CASE kind = "text" -> "create_doc"
                 [] kind = "url"  -> "extract"
                 [] OTHER         -> "stage_file")
    /\ UNCHANGED <<db, files, mem, tx, stages, res, call>>

\* _ingest_audio / _ingest_document: the upload is written to
\* {upload_dir}/{user_id}/{audio|documents}/{uuid}{ext} before anything else.
StageFile(r) ==
    /\ pc[r] = "stage_file"
    /\ \E ok \in BOOLEAN :
         IF ok
         THEN /\ files' = files \cup {rq[r].id}
              /\ Goto(r, IF rq[r].kind = "audio" THEN "create_doc" ELSE "extract")
              /\ UNCHANGED <<db, mem, tx>>
         ELSE /\ RaiseOutsideTry(r)
              /\ UNCHANGED files
    /\ UNCHANGED <<nextId, rq, stages, res, call>>

\* web_processor.fetch_and_extract / document_processor.process: both run
\* before the Document exists and outside the try block.
Extract(r) ==
    /\ pc[r] = "extract"
    /\ \E ok \in BOOLEAN :
         IF ok
         THEN Goto(r, "create_doc") /\ UNCHANGED <<db, mem, tx>>
         ELSE RaiseOutsideTry(r)
    /\ UNCHANGED <<files, nextId, rq, stages, res, call>>

\* doc = Document(..., status=RUNNING); db.add(doc); await db.flush()
CreateDocument(r) ==
    /\ pc[r] = "create_doc"
    /\ \E ok \in BOOLEAN :
         LET doc == Document(rq[r].id, rq[r].user_id, rq[r].kind) IN
         IF ok
         THEN /\ mem' = [mem EXCEPT ![r].doc = doc]
              /\ tx' = [tx EXCEPT ![r].documents = {doc}]
              /\ Goto(r, "create_job")
              /\ UNCHANGED db
         ELSE RaiseOutsideTry(r)
    /\ UNCHANGED <<files, nextId, rq, stages, res, call>>

\* job = IngestionJob(..., status=RUNNING, stage=...); db.add(job); flush
CreateJob(r) ==
    /\ pc[r] = "create_job"
    /\ \E ok \in BOOLEAN :
         LET job == IngestionJob(rq[r].id, rq[r].user_id, rq[r].kind) IN
         IF ok
         THEN /\ mem' = [mem EXCEPT ![r].job = job]
              /\ tx' = [tx EXCEPT ![r].ingestion_jobs = {job}]
              /\ stages' = [stages EXCEPT ![r] = <<job.stage>>]
              /\ Goto(r, IF rq[r].kind = "audio" THEN "update_extracted"
                                                 ELSE "update_chunked")
              /\ UNCHANGED db
         ELSE RaiseOutsideTry(r) /\ UNCHANGED stages
    /\ UNCHANGED <<files, nextId, rq, res, call>>

\* The stage each _update_job_stage call of the try block writes, and the
\* statement that follows it.
StageWritten(label) ==
    CASE label = "update_extracted" -> "EXTRACTED"
      [] label = "update_chunked"   -> "CHUNKED"
      [] label = "update_embedded"  -> "EMBEDDED"
      [] label = "update_indexed"   -> "INDEXED"

AfterStage(label) ==
    CASE label = "update_extracted" -> "transcribe"
      [] label = "update_chunked"   -> "chunk"
      [] label = "update_embedded"  -> "embed"
      [] label = "update_indexed"   -> "commit"

\* _update_job_stage: job.stage = stage; await db.flush().  After the INDEXED
\* flush the handler marks job and document COMPLETED before it awaits again.
\* With no chunks _create_chunks_with_embeddings returns at once.
UpdateJobStage(r) ==
    /\ pc[r] \in {"update_extracted", "update_chunked", "update_embedded",
                  "update_indexed"}
    /\ \E ok \in BOOLEAN :
         LET staged == [mem[r] EXCEPT !.job.stage = StageWritten(pc[r])] IN
         IF ok
         THEN /\ mem' = [mem EXCEPT ![r] =
                    IF pc[r] = "update_indexed" THEN MarkComplete(staged) ELSE staged]
              /\ tx' = [tx EXCEPT ![r].ingestion_jobs = {staged.job}]
              /\ stages' = [stages EXCEPT ![r] = Append(@, staged.job.stage)]
              /\ Goto(r, IF pc[r] = "update_embedded" /\ rq[r].nchunks = 0
                         THEN "update_indexed" ELSE AfterStage(pc[r]))
              /\ UNCHANGED db
         ELSE Abort(r, ExceptHandler(staged)) /\ UNCHANGED stages
    /\ UNCHANGED <<files, nextId, rq, res, call>>

\* transcript = await audio_processor.transcribe(stored_path)
Transcribe(r) ==
    /\ pc[r] = "transcribe"
    /\ \E ok \in BOOLEAN :
         IF ok
         THEN Goto(r, "update_chunked") /\ UNCHANGED <<db, mem, tx>>
         ELSE RaiseInTry(r)
    /\ UNCHANGED <<files, nextId, rq, stages, res, call>>

\* chunks_data = chunking_service.chunk_text(...) / chunk_audio_segments(...)
ChunkContent(r) ==
    /\ pc[r] = "chunk"
    /\ \/ \E n \in 0..MaxChunks :
            /\ rq' = [rq EXCEPT ![r].nchunks = n]
            /\ Goto(r, "update_embedded")
            /\ UNCHANGED <<db, mem, tx>>
       \/ RaiseInTry(r) /\ UNCHANGED rq
    /\ UNCHANGED <<files, nextId, stages, res, call>>

\* embeddings = await embedding_service.embed_texts(texts): the provider
\* answers with some number of vectors; zip() stops at the shorter list.
EmbedTexts(r) ==
    /\ pc[r] = "embed"
    /\ \/ \E m \in 0..rq[r].nchunks :
            /\ rq' = [rq EXCEPT ![r].nemb = m]
            /\ Goto(r, IF m = 0 THEN "update_indexed" ELSE "write_chunk")
            /\ UNCHANGED <<db, mem, tx>>
       \/ RaiseInTry(r) /\ UNCHANGED rq
    /\ UNCHANGED <<files, nextId, stages, res, call>>

\* (mutant) a loop turn that adds the Chunk and no ChunkEmbedding
ChunkRowsNoEmbedding(docId, u, i) ==
    [chunks |-> {Chunk(docId, u, i)}, chunk_embeddings |-> {}]

\* One turn of the zip loop: the Chunk and its ChunkEmbedding are added to
\* the session.
ChunkRows(docId, u, i) ==
    [chunks |-> {Chunk(docId, u, i)},
     chunk_embeddings |-> {ChunkEmbedding(Chunk(docId, u, i))}]

WriteChunk(r) ==
    /\ pc[r] = "write_chunk"
    /\ \E ok \in BOOLEAN :
         LET rows == ChunkRows(mem[r].doc.id, rq[r].user_id, rq[r].written) IN
         IF ok
         THEN /\ tx' = [tx EXCEPT ![r].chunks = @ \cup rows.chunks,
                                  ![r].chunk_embeddings = @ \cup rows.chunk_embeddings]
              /\ rq' = [rq EXCEPT ![r].written = @ + 1]
              /\ Goto(r, IF rq[r].written + 1 = Min(rq[r].nchunks, rq[r].nemb)
                         THEN "update_indexed" ELSE "write_chunk")
              /\ UNCHANGED <<db, mem>>
         ELSE RaiseInTry(r) /\ UNCHANGED rq
    /\ UNCHANGED <<files, nextId, stages, res, call>>

\* await self.db.commit(), after the try block: the dirty objects are flushed
\* and the transaction is committed, or the commit raises.
Commit(r) ==
    /\ pc[r] = "commit"
    /\ \E ok \in BOOLEAN :
         IF ok
         THEN /\ db' = CommitSession(db, FlushObjects(tx[r], mem[r]))
              /\ tx' = [tx EXCEPT ![r] = EmptyTables]
              /\ Goto(r, "done")
              /\ UNCHANGED mem
         ELSE RaiseOutsideTry(r)
    /\ UNCHANGED <<files, nextId, rq, stages, res, call>>

\* The request's task is cancelled while it awaits: CancelledError is not an
\* Exception, so no except-branch runs; get_db's finally closes the session.
Cancel(r) ==
    /\ InFlight(r)
    /\ db' = CloseSession(db, tx[r])
    /\ tx' = [tx EXCEPT ![r] = EmptyTables]
    /\ Goto(r, "cancelled")
    /\ UNCHANGED <<files, nextId, rq, mem, stages, res, call>>

\* ---------------------------------------------- retrieval (retrieval.py)

\* What a statement of session r reads: the committed rows and the rows of
\* its own transaction (PostgreSQL READ COMMITTED).
Visible(r) == CommitSession(db, tx[r])

\* The at most n rows a query with LIMIT n returns, whatever its ordering.
Limited(rows, n) ==
    {X \in SUBSET rows : Cardinality(X) = Min(n, Cardinality(rows))}

\* (mutant) the dense statement without its WHERE Chunk.user_id clause
VectorRowsAnyUser(t, u) ==
    {row \in [chunk : t.chunks, document : t.documents] :
        /\ \E e \in t.chunk_embeddings : e.chunk_id = row.chunk.id
        /\ row.chunk.document_id = row.document.id}

\* _vector_search's statement: Chunk JOIN ChunkEmbedding JOIN Document
\* WHERE Chunk.user_id = :user_id.
VectorRows(t, u) ==
    {row \in [chunk : t.chunks, document : t.documents] :
        /\ \E e \in t.chunk_embeddings : e.chunk_id = row.chunk.id
        /\ row.chunk.document_id = row.document.id
        /\ row.chunk.user_id = u}

\* _fulltext_search's statement: Chunk JOIN Document WHERE Chunk.user_id =
\* :user_id AND tsv @@ to_tsquery(...); which chunks match is up to the text.
FulltextRows(t, u) ==
    {row \in [chunk : t.chunks, document : t.documents] :
        /\ row.chunk.document_id = row.document.id
        /\ row.chunk.user_id = u}

\* _merge_results: one entry per chunk_id, the dense row first.
MergeResults(vector_results, text_results) ==
    vector_results \cup
    {t \in text_results : \A v \in vector_results : v.chunk.id # t.chunk.id}

\* retrieve() is called by /chat and /chat/stream for the current user.
BeginRetrieve(r, u) ==
    /\ pc[r] = "idle"
    /\ rq' = [rq EXCEPT ![r] = [NoRequest EXCEPT !.op = "retrieve", !.user_id = u]]
    /\ Goto(r, "vector_search")
    /\ UNCHANGED <<db, files, nextId, mem, tx, stages, res, call>>

VectorSearch(r) ==
    /\ pc[r] = "vector_search"
    /\ \E rows \in Limited(VectorRows(Visible(r), rq[r].user_id), TopK * 3) :
         res' = [res EXCEPT ![r].vector = rows]
    /\ Goto(r, "fulltext_search")
    /\ UNCHANGED <<db, files, nextId, rq, mem, tx, stages, call>>

\* The sparse statement may raise (an invalid tsquery): then it returns [].
FulltextSearch(r) ==
    /\ pc[r] = "fulltext_search"
    /\ \E matching \in SUBSET FulltextRows(Visible(r), rq[r].user_id) :
         \E rows \in Limited(matching, TopK * 3) :
            res' = [res EXCEPT ![r].text = rows]
    /\ Goto(r, "merge")
    /\ UNCHANGED <<db, files, nextId, rq, mem, tx, stages, call>>

\* merged = self._merge_results(...); return merged[:top_k].  retrieve()
\* returns: its two result lists are gone, the caller holds the passages.
Merge(r) ==
    /\ pc[r] = "merge"
    /\ \E rows \in Limited(MergeResults(res[r].vector, res[r].text), TopK) :
         res' = [res EXCEPT ![r] = [NoResults EXCEPT !.merged = rows]]
    /\ Goto(r, "done")
    /\ UNCHANGED <<db, files, nextId, rq, mem, tx, stages, call>>

\* ------------------------------------- DELETE /documents/{id} (documents.py)

\* (mutant) a delete that does not reach the embeddings
CascadeDeleteKeepingEmbeddings(tables, docId) ==
    [documents        |-> {d \in tables.documents : d.id # docId},
     ingestion_jobs   |-> {j \in tables.ingestion_jobs : j.document_id # docId},
     chunks           |-> {c \in tables.chunks : c.document_id # docId},
     chunk_embeddings |-> tables.chunk_embeddings]

\* db.delete(doc) with cascade="all, delete-orphan" on Document.chunks,
\* Document.ingestion_jobs and Chunk.embedding, and ondelete=CASCADE on the
\* foreign keys: the document's rows leave in the one commit.
CascadeDelete(tables, docId) ==
    LET gone == {c \in tables.chunks : c.document_id = docId} IN
    [documents        |-> {d \in tables.documents : d.id # docId},
     ingestion_jobs   |-> {j \in tables.ingestion_jobs : j.document_id # docId},
     chunks           |-> tables.chunks \ gone,
     chunk_embeddings |-> {e \in tables.chunk_embeddings :
                              \A c \in gone : e.chunk_id # c.id}]

\* list_documents / the ownership check of get and delete
OwnedDocuments(t, u) == {d \in t.documents : d.user_id = u}

BeginDelete(r, u, docId) ==
    /\ pc[r] = "idle"
    /\ rq' = [rq EXCEPT ![r] = [NoRequest EXCEPT !.op = "delete", !.user_id = u,
                                                 !.id = docId]]
    /\ Goto(r, "select_doc")
    /\ UNCHANGED <<db, files, nextId, mem, tx, stages, res, call>>

\* select(Document).where(id == document_id, user_id == user_id); 404 if none
SelectDocument(r) ==
    /\ pc[r] = "select_doc"
    /\ IF \E d \in OwnedDocuments(Visible(r), rq[r].user_id) : d.id = rq[r].id
       THEN Goto(r, "delete_doc")
       ELSE Goto(r, "failed")
    /\ UNCHANGED <<db, files, nextId, rq, mem, tx, stages, res, call>>

\* await db.delete(doc); await db.commit().  If another request deleted the
\* row meanwhile the DELETE matches nothing and the request fails.
DeleteDocument(r) ==
    /\ pc[r] = "delete_doc"
    /\ IF \E d \in db.documents : d.id = rq[r].id
       THEN db' = CascadeDelete(db, rq[r].id) /\ Goto(r, "done")
       ELSE db' = CloseSession(db, tx[r]) /\ Goto(r, "failed")
    /\ UNCHANGED <<files, nextId, rq, mem, tx, stages, res, call>>

\* The response is sent; the slot serves the next request.
Finish(r) ==
    /\ pc[r] \in {"done", "failed", "cancelled"}
    /\ Goto(r, "idle")
    /\ rq' = [rq EXCEPT ![r] = NoRequest]
    /\ mem' = [mem EXCEPT ![r] = NoObjects]
    /\ stages' = [stages EXCEPT ![r] = <<>>]
    /\ res' = [res EXCEPT ![r] = NoResults]
    /\ UNCHANGED <<db, files, nextId, tx, call>>

Next ==
    \E r \in Reqs :
        \/ \E u \in Users, kind \in SourceKinds : BeginIngest(r, u, kind)
        \/ StageFile(r)
        \/ Extract(r)
        \/ CreateDocument(r)
        \/ CreateJob(r)
        \/ UpdateJobStage(r)
        \/ Transcribe(r)
        \/ ChunkContent(r)
        \/ EmbedTexts(r)
        \/ WriteChunk(r)
        \/ Commit(r)
        \/ Cancel(r)
        \/ \E u \in Users : BeginRetrieve(r, u)
        \/ VectorSearch(r)
        \/ FulltextSearch(r)
        \/ Merge(r)
        \/ \E u \in Users, docId \in 1..MaxDocs : BeginDelete(r, u, docId)
        \/ SelectDocument(r)
        \/ DeleteDocument(r)
        \/ Finish(r)

Spec == Init /\ [][Next]_vars

\* ------------------------------------------------ chunkers (chunking.py)
\* A str is a sequence of characters, offsets into it are zero-based as in
\* Python.  An Optional value is <<>> for None and <<v>> for the value v.

MaxTextLen  == 3    \* characters of a text handed to chunk_text
MaxPieceLen == 3    \* characters of one piece the splitter returns
MaxSplits   == 2    \* pieces the splitter returns
MaxSegments == 3    \* transcript segments handed to chunk_audio_segments
MaxMs       == 2    \* largest segment time and target duration
MaxPages    == 3    \* pages of a PDF

Chars == {"a", " "}

\* the characters str.strip() removes
Whitespace == {" ", "\n"}

StringsOver(alphabet, n) == UNION {[1..k -> alphabet] : k \in 0..n}

Strings(n) == StringsOver(Chars, n)

None == <<>>

RECURSIVE LStrip(_)
LStrip(s) == IF s # <<>> /\ Head(s) \in Whitespace THEN LStrip(Tail(s)) ELSE s

RECURSIVE RStrip(_)
RStrip(s) ==
    IF s # <<>> /\ s[Len(s)] \in Whitespace
    THEN RStrip(SubSeq(s, 1, Len(s) - 1)) ELSE s

\* str.strip()
Strip(s) == RStrip(LStrip(s))

\* str.find(sub, start): the lowest offset >= start where sub occurs, or -1
Find(text, sub, start) ==
    LET at == {i \in start..(Len(text) - Len(sub)) :
                   SubSeq(text, i + 1, i + Len(sub)) = sub}
    IN  IF at = {} THEN -1 ELSE CHOOSE i \in at : \A j \in at : i <= j

RECURSIVE Join(_)
\* " ".join(texts)
Join(texts) ==
    IF texts = <<>> THEN <<>>
    ELSE IF Len(texts) = 1 THEN texts[1]
    ELSE texts[1] \o <<" ">> \o Join(Tail(texts))

\* token_count comes from the tiktoken encoder and is left out of the rows.
ChunkData(text, chunk_index, char_start, char_end, pages, times) ==
    [text |-> text, chunk_index |-> chunk_index,
     char_start |-> char_start, char_end |-> char_end,
     page_start |-> pages[1], page_end |-> pages[2],
     time_start_ms |-> times[1], time_end_ms |-> times[2]]

\* Python truth of an Optional[int]
Truthy(opt) == opt # None /\ opt[1] # 0

RECURSIVE PageLoop(_, _, _, _, _)
\* the loop over page_boundaries: the last page that matches wins
PageLoop(page_boundaries, char_start, char_end, page_start, page_end) ==
    IF page_boundaries = <<>>
    THEN [page_start |-> page_start,
          page_end   |-> IF Truthy(page_start) /\ ~Truthy(page_end)
                         THEN page_start ELSE page_end]
    ELSE LET page_num == Head(page_boundaries)[1]
             p_start  == Head(page_boundaries)[2]
             p_end    == Head(page_boundaries)[3]
         IN  PageLoop(Tail(page_boundaries), char_start, char_end,
                      IF p_start <= char_start /\ char_start < p_end
                      THEN <<page_num>> ELSE page_start,
                      IF p_start < char_end /\ char_end <= p_end
                      THEN <<page_num>> ELSE page_end)

RECURSIVE TextLoop(_, _, _, _, _)
\* the loop of chunk_text over enumerate(splits), from piece idx on
TextLoop(text, page_boundaries, splits, idx, current_pos) ==
    IF idx >= Len(splits) THEN <<>>
    ELSE LET split_text == splits[idx + 1]
             found      == Find(text, split_text, current_pos)
             char_start == IF found = -1 THEN current_pos ELSE found
             char_end   == char_start + Len(split_text)
             pages      == PageLoop(page_boundaries, char_start, char_end,
                                    None, None)
         IN  <<ChunkData(split_text, idx, char_start, char_end,
                         <<pages.page_start, pages.page_end>>,
                         <<None, None>>)>>
             \o TextLoop(text, page_boundaries, splits, idx + 1, char_start + 1)

\* chunk_text(text, page_boundaries); splits is what splitter.split_text(text)
\* returned
chunk_text(text, page_boundaries, splits) ==
    IF Strip(text) = <<>> THEN <<>>
    ELSE TextLoop(text, page_boundaries, splits, 0, 0)

NoSegmentsOpen ==
    [chunks |-> <<>>, current_texts |-> <<>>,
     current_start_ms |-> None, current_end_ms |-> None,
     chunk_index |-> 0, char_offset |-> 0]

\* the chunk built from the segments collected so far
AudioChunk(st) ==
    ChunkData(Join(st.current_texts), st.chunk_index,
              st.char_offset, st.char_offset + Len(Join(st.current_texts)),
              <<None, None>>, <<st.current_start_ms, st.current_end_ms>>)

IsBlankNever(seg_text) == FALSE

\* "if not seg_text: continue"
IsBlank(seg_text) ==
    seg_text = <<>>

CloseChunkKeepingStart(open) ==
    [chunks |-> Append(open.chunks, AudioChunk(open)),
     current_texts |-> <<>>,
     current_start_ms |-> open.current_start_ms, current_end_ms |-> None,
     chunk_index |-> open.chunk_index + 1,
     char_offset |-> open.char_offset + Len(Join(open.current_texts)) + 1]

\* "Create chunk": the chunk is appended and the collection starts afresh
CloseChunk(open) ==
    [chunks |-> Append(open.chunks, AudioChunk(open)),
     current_texts |-> <<>>,
     current_start_ms |-> None, current_end_ms |-> None,
     chunk_index |-> open.chunk_index + 1,
     char_offset |-> open.char_offset + Len(Join(open.current_texts)) + 1]

ReachedTargetStrictly(duration, target_duration_ms) ==
    duration > target_duration_ms

\* "if duration >= target_duration_ms"
ReachedTarget(duration, target_duration_ms) ==
    duration >= target_duration_ms

\* one pass of the loop over segments
SegmentStep(st, segment, target_duration_ms) ==
    LET seg_text == Strip(segment.text)
        open     == [st EXCEPT
                        !.current_start_ms =
                            IF st.current_start_ms = None
                            THEN <<segment.start_ms>> ELSE @,
                        !.current_texts = Append(@, seg_text),
                        !.current_end_ms = <<segment.end_ms>>]
        duration == open.current_end_ms[1] - open.current_start_ms[1]
    IN  IF IsBlank(seg_text) THEN st
        ELSE IF ReachedTarget(duration, target_duration_ms)
        THEN CloseChunk(open)
        ELSE open

RECURSIVE SegmentLoop(_, _, _)
SegmentLoop(st, segments, target_duration_ms) ==
    IF segments = <<>> THEN st
    ELSE SegmentLoop(SegmentStep(st, Head(segments), target_duration_ms),
                     Tail(segments), target_duration_ms)

chunk_audio_segments(segments, target_duration_ms) ==
    LET st == SegmentLoop(NoSegmentsOpen, segments, target_duration_ms)
    IN  IF st.current_texts # <<>>
        THEN Append(st.chunks, AudioChunk(st))
        ELSE st.chunks

\* What RecursiveCharacterTextSplitter can return: stripped, non-empty pieces.
Pieces ==
    {s \in StringsOver(Chars \cup Whitespace, MaxPieceLen) :
        s # <<>> /\ Strip(s) = s}

SplitterOutputs == UNION {[1..k -> Pieces] : k \in 0..MaxSplits}

\* "\n".join(text_parts)
RECURSIVE JoinLines(_)
JoinLines(text_parts) ==
    IF text_parts = <<>> THEN <<>>
    ELSE IF Len(text_parts) = 1 THEN text_parts[1]
    ELSE text_parts[1] \o <<"\n">> \o JoinLines(Tail(text_parts))

RECURSIVE PdfLoop(_, _, _)
\* the loop of _process_pdf over enumerate(pdf.pages, start=1), from page
\* page_num on: a page whose text is blank adds neither text nor boundary
PdfLoop(pages, page_num, char_offset) ==
    IF page_num > Len(pages) THEN [text_parts |-> <<>>, page_boundaries |-> <<>>]
    ELSE LET page_text == pages[page_num]
             next      == char_offset + Len(page_text) + 1
             rest      == PdfLoop(pages, page_num + 1,
                                  IF Strip(page_text) # <<>> THEN next
                                  ELSE char_offset)
         IN  IF Strip(page_text) # <<>>
             THEN [text_parts |-> <<page_text>> \o rest.text_parts,
                   page_boundaries |->
                       << <<page_num, char_offset, next - 1>> >>
                       \o rest.page_boundaries]
             ELSE rest

\* _process_pdf: the text and page_boundaries of an ExtractedDocument
process_pdf(pages) ==
    LET parts == PdfLoop(pages, 1, 0)
    IN  [text |-> JoinLines(parts.text_parts),
         page_boundaries |-> parts.page_boundaries]

\* what page.extract_text() returns for one page
PageTexts == {<<>>, <<" ">>, <<"a">>, <<"a", "a">>}

PdfFiles == UNION {[1..k -> PageTexts] : k \in 1..MaxPages}

SegmentTexts == {<<" ">>, <<" ", "a">>}

Segments ==
    [text : SegmentTexts, start_ms : 0..MaxMs, end_ms : 0..MaxMs]

\* chunk_text as the pipeline calls it: on a text without boundaries
\* (ingest_text, ingest_url, Markdown and text files) or on what
\* _process_pdf extracted.
ChunkTextCalls ==
    {[NoCall EXCEPT !.fn = "chunk_text", !.text = text, !.splits = splits] :
        text \in Strings(MaxTextLen), splits \in SplitterOutputs}
    \cup
    {[NoCall EXCEPT !.fn = "chunk_text", !.text = process_pdf(pages).text,
                    !.page_boundaries = process_pdf(pages).page_boundaries,
                    !.splits = splits] :
        pages \in PdfFiles, splits \in SplitterOutputs}

ChunkAudioCalls ==
    {[NoCall EXCEPT !.fn = "chunk_audio_segments", !.segments = segments,
                    !.target_duration_ms = target_duration_ms] :
        segments \in UNION {[1..k -> Segments] : k \in 0..MaxSegments},
        target_duration_ms \in 1..MaxMs}

InitChunking ==
    /\ SystemInit
    /\ call \in ChunkTextCalls \cup ChunkAudioCalls

ChunkText ==
    /\ call.fn = "chunk_text"
    /\ ~call.returned
    /\ call' = [call EXCEPT
                   !.returned = TRUE,
                   !.chunks = chunk_text(call.text, call.page_boundaries,
                                         call.splits)]
    /\ UNCHANGED system

ChunkAudioSegments ==
    /\ call.fn = "chunk_audio_segments"
    /\ ~call.returned
    /\ call' = [call EXCEPT
                   !.returned = TRUE,
                   !.chunks = chunk_audio_segments(call.segments,
                                                   call.target_duration_ms)]
    /\ UNCHANGED system

\* The time columns of the Chunk(...) row _create_chunks_with_embeddings
\* builds from one ChunkData; a datetime is its distance in ms from an epoch.
ChunkTimes(chunk_data, base_time) ==
    LET anchored == chunk_data.time_start_ms # None /\ base_time # None
    IN  [chunk_index |-> chunk_data.chunk_index,
         time_start |-> IF anchored
                        THEN <<base_time[1] + chunk_data.time_start_ms[1]>>
                        ELSE None,
         time_end   |-> IF anchored
                        THEN <<base_time[1] + chunk_data.time_end_ms[1]>>
                        ELSE None,
         source_offset_ms_start |-> chunk_data.time_start_ms,
         source_offset_ms_end   |-> chunk_data.time_end_ms]

\* base_time as the pipeline passes it: created_at or now() for audio, not
\* passed for text, URL and document ingestion.
BaseTimes(fn) ==
    IF fn = "chunk_audio_segments" THEN {<<t>> : t \in 0..MaxMs} ELSE {None}

\* _create_chunks_with_embeddings: one Chunk row per pair of
\* zip(chunks_data, embeddings), embeddings being what embed_texts returned
CreateChunkRows ==
    /\ call.returned
    /\ ~call.stored
    /\ \E base_time \in BaseTimes(call.fn), nemb \in 0..Len(call.chunks) :
           call' = [call EXCEPT
                       !.stored = TRUE,
                       !.base_time = base_time,
                       !.rows = [i \in 1..nemb |->
                                    ChunkTimes(call.chunks[i], base_time)]]
    /\ UNCHANGED system

NextChunking ==
    \/ ChunkText
    \/ ChunkAudioSegments
    \/ CreateChunkRows

SpecChunking == InitChunking /\ [][NextChunking]_vars

\* ======================================================== claims C1 - C9

Last(seq) == seq[Len(seq)]

\* Every row a retrieval of request r holds: dense, sparse and fused.
Returned(r) == res[r].vector \cup res[r].text \cup res[r].merged

ChunksOf(tables, docId) == {c \in tables.chunks : c.document_id = docId}

IsIngest(r) == rq[r].op = "ingest"

\* C1: every passage a retrieval returns (dense rows, sparse rows, fused
\* result) is a chunk whose user_id is the querying user's and whose parent
\* document has that user_id too, and every stored chunk carries the
\* user_id of its document.
C1_NoCrossUserLeak ==
    /\ \A r \in Reqs : \A row \in Returned(r) :
          /\ row.chunk.user_id = rq[r].user_id
          /\ row.document.user_id = rq[r].user_id
    /\ \A c \in db.chunks : \A d \in db.documents :
          d.id = c.document_id => d.user_id = c.user_id

\* A retrieval returned a passage while a chunk of another user is stored.
C1_Witness ==
    \E r \in Reqs :
        /\ pc[r] = "done" /\ res[r].merged # {}
        /\ \E c \in db.chunks : c.user_id # rq[r].user_id

FailedInStep(r) ==
    /\ pc[r] = "failed" /\ IsIngest(r)
    /\ mem[r].job.status = "FAILED"
    /\ mem[r].job.stage = Last(stages[r])

\* C3: after an ingestion step raised and the request ended, the document is
\* in the user's listing with status FAILED and its job is stored FAILED
\* with a non-empty error.
C3_FailedDocumentListed ==
    \A r \in Reqs : FailedInStep(r) =>
        /\ \E d \in OwnedDocuments(db, rq[r].user_id) :
              d.id = rq[r].id /\ d.status = "FAILED"
        /\ \E j \in db.ingestion_jobs :
              j.document_id = rq[r].id /\ j.status = "FAILED" /\ j.error # ""

SameOutcome(d, j) ==
    /\ d.status = "COMPLETED" <=> j.status = "COMPLETED"
    /\ d.status = "FAILED" <=> j.status = "FAILED"

\* C4: wherever a document and its job both exist (the handler's objects,
\* the session's transaction, the stored tables) the document is COMPLETED
\* iff the job is, and FAILED iff the job is.
C4_StatusesMoveTogether ==
    /\ \A r \in Reqs : mem[r].job # NoJob => SameOutcome(mem[r].doc, mem[r].job)
    /\ \A r \in Reqs : \A d \in tx[r].documents : \A j \in tx[r].ingestion_jobs :
          j.document_id = d.id => SameOutcome(d, j)
    /\ \A d \in db.documents : \A j \in db.ingestion_jobs :
          j.document_id = d.id => SameOutcome(d, j)

\* One ingestion ended with document and job FAILED, another is stored with
\* document and job COMPLETED.
C4_Witness ==
    /\ \E r \in Reqs : pc[r] = "failed" /\ mem[r].doc.status = "FAILED"
                       /\ mem[r].job.status = "FAILED"
    /\ \E d \in db.documents : \E j \in db.ingestion_jobs :
          j.document_id = d.id /\ d.status = "COMPLETED" /\ j.status = "COMPLETED"

ExpectedStages(kind) ==
    CASE kind = "audio" -> <<"RECEIVED", "EXTRACTED", "CHUNKED", "EMBEDDED", "INDEXED">>
      [] kind = "text"  -> <<"RECEIVED", "CHUNKED", "EMBEDDED", "INDEXED">>
      [] OTHER          -> <<"EXTRACTED", "CHUNKED", "EMBEDDED", "INDEXED">>

C6_CancelledDocumentStored ==
    \A r \in Reqs :
        (pc[r] = "cancelled" /\ IsIngest(r) /\ mem[r].doc # NoDocument) =>
            /\ \E d \in db.documents : d.id = mem[r].doc.id /\ d.status = "RUNNING"
            /\ stages[r] # <<>> =>
                  \E j \in db.ingestion_jobs :
                      j.document_id = mem[r].doc.id /\ j.stage = Last(stages[r])

\* The final commit raised: the handler had already marked both objects
\* COMPLETED.
CommitFailed(r) ==
    pc[r] = "failed" /\ IsIngest(r) /\ mem[r].doc.status = "COMPLETED"

\* C7: after the final commit failed the document is stored RUNNING, its job
\* is stored FAILED with the error, and none of its chunks is stored.
C7_CommitFailureRecorded ==
    \A r \in Reqs : CommitFailed(r) =>
        /\ \E d \in db.documents : d.id = rq[r].id /\ d.status = "RUNNING"
        /\ \E j \in db.ingestion_jobs :
              j.document_id = rq[r].id /\ j.status = "FAILED" /\ j.error # ""
        /\ ChunksOf(db, rq[r].id) = {}

EmbeddingsOf(tables, docId) ==
    {e \in tables.chunk_embeddings :
        \E c \in ChunksOf(tables, docId) : e.chunk_id = c.id}

\* C8: every chunk of a stored COMPLETED document has exactly one
\* ChunkEmbedding, every stored ChunkEmbedding refers to a stored chunk, and
\* the document has as many embeddings as chunks.
C8_OneEmbeddingPerChunk ==
    /\ \A d \in db.documents : d.status = "COMPLETED" =>
          /\ \A c \in ChunksOf(db, d.id) :
                Cardinality({e \in db.chunk_embeddings : e.chunk_id = c.id}) = 1
          /\ Cardinality(ChunksOf(db, d.id)) = Cardinality(EmbeddingsOf(db, d.id))
    /\ \A e \in db.chunk_embeddings : \E c \in db.chunks : c.id = e.chunk_id

\* A COMPLETED document with a chunk is stored.
C8_Witness ==
    \E d \in db.documents : d.status = "COMPLETED" /\ ChunksOf(db, d.id) # {}

JobsOf(tables, docId) == {j \in tables.ingestion_jobs : j.document_id = docId}

\* Nothing stored refers to a document, chunk or embedding that is gone.
NoDanglingRows ==
    /\ \A c \in db.chunks : \E d \in db.documents : d.id = c.document_id
    /\ \A j \in db.ingestion_jobs : \E d \in db.documents : d.id = j.document_id
    /\ \A e \in db.chunk_embeddings : \E c \in db.chunks : c.id = e.chunk_id

\* After a DELETE that succeeded nothing of its document is stored.
DeletedIsGone ==
    \A r \in Reqs : (pc[r] = "done" /\ rq[r].op = "delete") =>
        /\ \A d \in db.documents : d.id # rq[r].id
        /\ ChunksOf(db, rq[r].id) = {}
        /\ JobsOf(db, rq[r].id) = {}

\* In one step a stored document either keeps all its rows or loses all of
\* them together with itself.
RowsLeaveTogether ==
    \A d \in db.documents :
        IF d \in db'.documents
        THEN /\ ChunksOf(db', d.id) = ChunksOf(db, d.id)
             /\ EmbeddingsOf(db', d.id) = EmbeddingsOf(db, d.id)
             /\ JobsOf(db', d.id) = JobsOf(db, d.id)
        ELSE /\ \A d2 \in db'.documents : d2.id # d.id
             /\ ChunksOf(db', d.id) = {}
             /\ JobsOf(db', d.id) = {}

\* A search that runs now returns only rows of documents and chunks stored
\* now.
SearchReadsStored ==
    \A q \in Reqs :
        /\ res'[q].vector # res[q].vector =>
              \A row \in res'[q].vector :
                  row.document \in db.documents /\ row.chunk \in db.chunks
        /\ res'[q].text # res[q].text =>
              \A row \in res'[q].text :
                  row.document \in db.documents /\ row.chunk \in db.chunks

\* C9: after DELETE /documents/{id} succeeded no chunk, embedding or job of
\* the document is stored and no search run afterwards returns a chunk of
\* it; a document's rows leave the store in one step, all or none, and
\* nothing stored is ever left referring to a row that is gone.
C9_DeleteCascadesAtomically ==
    /\ [](NoDanglingRows /\ DeletedIsGone)
    /\ [][RowsLeaveTogether /\ SearchReadsStored]_vars

\* A DELETE succeeded while another request's retrieval still holds a
\* passage of the deleted document, read before the delete.
C9_Witness ==
    \E r, q \in Reqs :
        /\ pc[r] = "done" /\ rq[r].op = "delete"
        /\ rq[q].op = "retrieve"
        /\ \E row \in Returned(q) : row.document.id = rq[r].id

\* ============================================================= claim C10

\* C10: in the list either chunker returns, the i-th chunk in output order
\* has chunk_index = i counted from zero, so the indexes are unique and
\* without gaps, and every chunk has char_start < char_end.
C10_ChunkIndexAndSpan ==
    call.returned =>
        \A i \in 1..Len(call.chunks) :
            /\ call.chunks[i].chunk_index = i - 1
            /\ call.chunks[i].char_start < call.chunks[i].char_end

\* chunk_text has returned two chunks, the second for a piece that find()
\* did not locate at or after the search position.
C10_Witness ==
    /\ call.returned
    /\ call.fn = "chunk_text"
    /\ Len(call.chunks) = 2
    /\ Find(call.text, call.splits[2], call.chunks[1].char_start + 1) = -1

\* ====================================================== claims C11 - C20

\* text[char_start:char_end]
Slice(text, char_start, char_end) ==
    SubSeq(text, char_start + 1, Min(char_end, Len(text)))

RECURSIVE NonBlankSegments(_)
\* the segments chunk_audio_segments does not skip, in input order
NonBlankSegments(segments) ==
    IF segments = <<>> THEN <<>>
    ELSE IF Strip(Head(segments).text) = <<>> THEN NonBlankSegments(Tail(segments))
    ELSE <<Head(segments)>> \o NonBlankSegments(Tail(segments))

\* the stripped texts of segments lo..hi
SegmentTextsOf(segments, lo, hi) ==
    [k \in 1..(hi - lo + 1) |-> Strip(segments[lo + k - 1].text)]

\* the space-joined text of all non-empty segments
Transcript(segments) ==
    Join(SegmentTextsOf(NonBlankSegments(segments), 1,
                        Len(NonBlankSegments(segments))))

\* C11: every chunk of chunk_text(text) has text = text[char_start:char_end]
\* and char_end <= len(text), whatever pieces the splitter returned; every
\* chunk of chunk_audio_segments is that slice of the space-joined text of
\* all non-empty segments.
C11_ChunkTextIsSlice ==
    call.returned =>
        \A i \in 1..Len(call.chunks) :
            LET c == call.chunks[i]
            IN  /\ call.fn = "chunk_text" =>
                      /\ c.text = Slice(call.text, c.char_start, c.char_end)
                      /\ c.char_end <= Len(call.text)
                /\ call.fn = "chunk_audio_segments" =>
                      c.text = Slice(Transcript(call.segments),
                                     c.char_start, c.char_end)

\* page_num is the page whose interval contains offset
OnPage(page_boundaries, page_num, offset) ==
    \E k \in 1..Len(page_boundaries) :
        /\ page_boundaries[k][1] = page_num
        /\ page_boundaries[k][2] <= offset
        /\ offset < page_boundaries[k][3]

\* C12: with page_boundaries supplied, every chunk of chunk_text has
\* page_start and page_end set, page_start the page whose interval contains
\* char_start, page_end the page whose interval contains char_end - 1, and
\* page_start <= page_end.
C12_PagesOfChunk ==
    (call.returned /\ call.fn = "chunk_text" /\ call.page_boundaries # <<>>) =>
        \A i \in 1..Len(call.chunks) :
            LET c == call.chunks[i]
            IN  /\ c.page_start # None /\ c.page_end # None
                /\ OnPage(call.page_boundaries, c.page_start[1], c.char_start)
                /\ OnPage(call.page_boundaries, c.page_end[1], c.char_end - 1)
                /\ c.page_start[1] <= c.page_end[1]

RECURSIVE ExpectedGroups(_, _, _)
\* The runs lo..hi of non-empty segments that make the chunks: a run ends at
\* the first segment whose end_ms is target_duration_ms or more after the
\* start_ms of the run's first segment; what is left over is the last run.
ExpectedGroups(segments, lo, target_duration_ms) ==
    IF lo > Len(segments) THEN <<>>
    ELSE LET closing == {j \in lo..Len(segments) :
                            segments[j].end_ms - segments[lo].start_ms
                                >= target_duration_ms}
         IN  IF closing = {} THEN << <<lo, Len(segments)>> >>
             ELSE LET hi == CHOOSE j \in closing : \A k \in closing : j <= k
                  IN  << <<lo, hi>> >>
                      \o ExpectedGroups(segments, hi + 1, target_duration_ms)

\* C13: chunk_audio_segments closes a chunk at the first segment whose
\* end_ms minus the start_ms of the chunk's first segment reaches
\* target_duration_ms, so every chunk but the last lasts at least
\* target_duration_ms; left-over segments make a final chunk whatever its
\* duration; every segment whose stripped text is non-empty is in exactly
\* one chunk, in input order, and a chunk's text is the space-joined
\* (stripped) texts of its segments.
C13_AudioChunksCloseAtTarget ==
    (call.returned /\ call.fn = "chunk_audio_segments") =>
        LET kept   == NonBlankSegments(call.segments)
            groups == ExpectedGroups(kept, 1, call.target_duration_ms)
        IN  /\ Len(call.chunks) = Len(groups)
            /\ \A k \in 1..Len(groups) :
                  LET c == call.chunks[k]
                      lo == groups[k][1]
                      hi == groups[k][2]
                  IN  /\ c.text = Join(SegmentTextsOf(kept, lo, hi))
                      /\ c.time_start_ms = <<kept[lo].start_ms>>
                      /\ c.time_end_ms = <<kept[hi].end_ms>>
                      /\ k < Len(groups) =>
                            c.time_end_ms[1] - c.time_start_ms[1]
                                >= call.target_duration_ms

\* Two segments made the first chunk, closed by the second of them, and the
\* left-over segment a last chunk shorter than the target.
C13_Witness ==
    /\ call.returned /\ call.fn = "chunk_audio_segments"
    /\ Len(call.chunks) = 2
    /\ call.chunks[1].text = <<"a", " ", "a">>
    /\ call.chunks[2].time_end_ms[1] - call.chunks[2].time_start_ms[1]
          < call.target_duration_ms

\* Each segment has start_ms <= end_ms and no segment starts before the
\* one before it ended.
TimesNonDecreasing(segments) ==
    /\ \A i \in 1..Len(segments) : segments[i].start_ms <= segments[i].end_ms
    /\ \A i \in 1..(Len(segments) - 1) :
          segments[i].end_ms <= segments[i + 1].start_ms

\* C14: for the Chunk rows the pipeline builds from audio segments with
\* start_ms <= end_ms and non-decreasing times: time_start <= time_end, a
\* chunk ends no later than the next one starts, time_start and time_end are
\* both present or both absent, and so are source_offset_ms_start and
\* source_offset_ms_end.
C14_AudioTimesOrdered ==
    (call.stored /\ call.fn = "chunk_audio_segments"
        /\ TimesNonDecreasing(call.segments)) =>
        /\ \A i \in 1..Len(call.rows) :
              LET row == call.rows[i]
              IN  /\ (row.time_start = None) <=> (row.time_end = None)
                  /\ (row.source_offset_ms_start = None)
                        <=> (row.source_offset_ms_end = None)
                  /\ row.time_start # None =>
                        row.time_start[1] <= row.time_end[1]
                  /\ row.source_offset_ms_start # None =>
                        row.source_offset_ms_start[1] <= row.source_offset_ms_end[1]
        /\ \A i \in 1..(Len(call.rows) - 1) :
              /\ call.rows[i].time_end[1] <= call.rows[i + 1].time_start[1]
              /\ call.rows[i].source_offset_ms_end[1]
                    <= call.rows[i + 1].source_offset_ms_start[1]

\* Two audio chunks with different time ranges were turned into rows.
C14_Witness ==
    /\ call.stored /\ call.fn = "chunk_audio_segments"
    /\ TimesNonDecreasing(call.segments)
    /\ Len(call.rows) = 2
    /\ call.rows[1].time_start[1] < call.rows[1].time_end[1]
    /\ call.rows[1].time_end[1] < call.rows[2].time_start[1]

\* ------------------------------------- TemporalParser (retrieval.py)
\* A query is a sequence of atoms: a maximal run of word characters is one
\* atom, a whitespace character is the atom " ".  A datetime is the ordinal
\* of its day (date.toordinal()) and its time of day.

MaxQueryLen == 5    \* atoms of a query

Weekdays ==
    [monday |-> 0, tuesday |-> 1, wednesday |-> 2, thursday |-> 3,
     friday |-> 4, saturday |-> 5, sunday |-> 6]

Months ==
    [january |-> 1, february |-> 2, march |-> 3, april |-> 4, may |-> 5,
     june |-> 6, july |-> 7, august |-> 8, september |-> 9, october |-> 10,
     november |-> 11, december |-> 12]

\* int() of the atoms that \d+ matches
Numbers == [n \in {"2"} |-> 2]

\* str.lower() on the words of the queries
Lower(word) == IF word = "TODAY" THEN "today" ELSE word

\* \s+ as an element of a pattern
Spaces == {" "}

\* The patterns of parse_time_expression in declaration order, each the
\* sequence of its elements: a set of (lower-case) words or \s+.
Patterns ==
    << <<{"last"}, Spaces, DOMAIN Weekdays>>,
       <<{"yesterday"}>>,
       <<{"last"}, Spaces, {"week"}>>,
       <<{"last"}, Spaces, {"month"}>>,
       <<{"last"}, Spaces, DOMAIN Numbers, Spaces, {"day", "days"}>>,
       <<{"in"}, Spaces, DOMAIN Months>>,
       <<{"this"}, Spaces, {"week"}>>,
       <<{"today"}>> >>

\* the first offset at or after i that holds no whitespace
SkipSpaces(query, i) ==
    CHOOSE j \in i..(Len(query) + 1) :
        /\ \A k \in i..(j - 1) : query[k] = " "
        /\ j = Len(query) + 1 \/ query[j] # " "

RECURSIVE MatchFrom(_, _, _, _)
\* re.match of the elements k.. of a pattern at atom i of the query: the
\* index after the match, 0 if there is none (re.IGNORECASE)
MatchFrom(pattern, k, query, i) ==
    IF k > Len(pattern) THEN i
    ELSE IF i > Len(query) THEN 0
    ELSE IF pattern[k] = Spaces
    THEN IF query[i] = " "
         THEN MatchFrom(pattern, k + 1, query, SkipSpaces(query, i))
         ELSE 0
    ELSE IF Lower(query[i]) \in pattern[k]
    THEN MatchFrom(pattern, k + 1, query, i + 1)
    ELSE 0

\* re.search from atom i on: <<start, end>> of the leftmost match (end is the
\* index after it), <<>> if there is none
Search(pattern, query, i) ==
    LET starts == {j \in i..Len(query) : MatchFrom(pattern, 1, query, j) # 0}
    IN  IF starts = {} THEN <<>>
        ELSE LET j == CHOOSE x \in starts : \A y \in starts : x <= y
             IN  <<j, MatchFrom(pattern, 1, query, j)>>

RECURSIVE Sub(_, _, _)
\* re.sub(pattern, "", query): every match is removed, left to right
Sub(pattern, query, i) ==
    LET m == Search(pattern, query, i)
    IN  IF m = <<>> THEN SubSeq(query, i, Len(query))
        ELSE SubSeq(query, i, m[1] - 1) \o Sub(pattern, query, m[2])

IsLeap(year) ==
    year % 4 = 0 /\ (year % 100 # 0 \/ year % 400 = 0)

DaysInMonth(year, month) ==
    IF month = 2 THEN (IF IsLeap(year) THEN 29 ELSE 28)
    ELSE IF month \in {4, 6, 9, 11} THEN 30 ELSE 31

RECURSIVE DaysBeforeMonth(_, _)
DaysBeforeMonth(year, month) ==
    IF month = 1 THEN 0
    ELSE DaysBeforeMonth(year, month - 1) + DaysInMonth(year, month - 1)

\* date(year, month, day).toordinal()
Ordinal(year, month, day) ==
    LET y == year - 1
    IN  y * 365 + y \div 4 - y \div 100 + y \div 400
        + DaysBeforeMonth(year, month) + day

\* datetime(year, month, day, hour, minute, second, microsecond)
Datetime(year, month, day, time) ==
    [ord |-> Ordinal(year, month, day), hour |-> time[1], minute |-> time[2],
     second |-> time[3], microsecond |-> time[4]]

\* the datetime a reference time (year, month, day and time of day) is
Instant(reference) ==
    Datetime(reference.year, reference.month, reference.day,
             <<reference.hour, reference.minute, reference.second,
               reference.microsecond>>)

\* datetime.weekday(): Monday is 0
Weekday(dt) == (dt.ord + 6) % 7

\* dt - timedelta(days=days)
MinusDays(dt, days) == [dt EXCEPT !.ord = @ - days]

\* dt - timedelta(seconds=1)
MinusOneSecond(dt) ==
    IF dt.second > 0 THEN [dt EXCEPT !.second = @ - 1]
    ELSE IF dt.minute > 0 THEN [dt EXCEPT !.minute = @ - 1, !.second = 59]
    ELSE IF dt.hour > 0
    THEN [dt EXCEPT !.hour = @ - 1, !.minute = 59, !.second = 59]
    ELSE [dt EXCEPT !.ord = @ - 1, !.hour = 23, !.minute = 59, !.second = 59]

\* a <= b on datetimes
NotAfter(a, b) ==
    LET ka == <<a.ord, a.hour, a.minute, a.second, a.microsecond>>
        kb == <<b.ord, b.hour, b.minute, b.second, b.microsecond>>
    IN  \/ ka = kb
        \/ \E i \in 1..5 : ka[i] < kb[i] /\ \A j \in 1..(i - 1) : ka[j] = kb[j]

\* _get_last_weekday
get_last_weekday(weekday_name, reference) ==
    LET target_weekday == Weekdays[Lower(weekday_name)]
        back           == (Weekday(Instant(reference)) - target_weekday) % 7
        days_back      == IF back = 0 THEN 7 ELSE back
        target_date    == MinusDays(Instant(reference), days_back)
    IN  <<[target_date EXCEPT !.hour = 0, !.minute = 0, !.second = 0,
                              !.microsecond = 0],
          [target_date EXCEPT !.hour = 23, !.minute = 59, !.second = 59,
                              !.microsecond = 999999]>>

\* _get_month_range
get_month_range(month_name, reference) ==
    LET target_month == Months[Lower(month_name)]
        year  == IF target_month > reference.month
                 THEN reference.year - 1 ELSE reference.year
        start == Datetime(year, target_month, 1, <<0, 0, 0, 0>>)
        end   == IF target_month = 12
                 THEN MinusOneSecond(Datetime(year + 1, 1, 1, <<0, 0, 0, 0>>))
                 ELSE MinusOneSecond(Datetime(year, target_month + 1, 1,
                                              <<0, 0, 0, 0>>))
    IN  <<start, end>>

\* m.group(1) of the patterns that have a group: the second word of the match
Group1(query, m) == query[SkipSpaces(query, m[1] + 1)]

\* the handler (lambda) of pattern k applied to the match m
Handler(k, query, m, reference) ==
    LET now == Instant(reference)
    IN  CASE k = 1 -> get_last_weekday(Group1(query, m), reference)
          [] k = 2 -> <<MinusDays(now, 1), now>>
          [] k = 3 -> <<MinusDays(now, 7), now>>
          [] k = 4 -> <<MinusDays(now, 30), now>>
          [] k = 5 -> <<MinusDays(now, Numbers[Group1(query, m)]), now>>
          [] k = 6 -> get_month_range(Group1(query, m), reference)
          [] k = 7 -> <<MinusDays(now, Weekday(now)), now>>
          [] k = 8 -> <<[now EXCEPT !.hour = 0, !.minute = 0, !.second = 0],
                        now>>

\* the patterns that match somewhere in the query
Matching(query) ==
    {k \in 1..Len(Patterns) : Search(Patterns[k], query, 1) # <<>>}

\* the first pattern, in declaration order, that matches
FirstMatching(query) ==
    CHOOSE k \in Matching(query) : \A j \in Matching(query) : k <= j

\* parse_time_expression(query, reference_time=reference)
parse_time_expression(query, reference) ==
    IF Matching(query) = {}
    THEN [cleaned_query |-> query, time_start |-> None, time_end |-> None]
    ELSE LET k == FirstMatching(query)
             time_range == Handler(k, query, Search(Patterns[k], query, 1),
                                   reference)
         IN  [cleaned_query |-> Strip(Sub(Patterns[k], query, 1)),
              time_start |-> <<time_range[1]>>,
              time_end |-> <<time_range[2]>>]

\* the words of the queries
QueryWords ==
    {"notes", "last", "monday", "yesterday", "week", "month", "2", "days",
     "in", "february", "december", "this", "today", "TODAY"}

RECURSIVE Queries(_)
\* the queries of at most n atoms
Queries(n) ==
    IF n = 0 THEN {<<>>}
    ELSE Queries(n - 1) \cup
         {Append(q, a) : <<q, a>> \in
             {x \in Queries(n - 1) \X (QueryWords \cup Spaces) :
                 /\ Len(x[1]) = n - 1
                 /\ x[1] # <<>> /\ x[2] # " " => x[1][Len(x[1])] = " "}}

\* 2024-01-01 is a Monday, 2024-02-29 a leap day, 2024-03-03 a Sunday
ReferenceDates == {<<2024, 1, 1>>, <<2024, 2, 29>>, <<2024, 3, 3>>, <<2024, 12, 31>>}

TimesOfDay == {<<0, 0, 0, 0>>, <<13, 30, 15, 250000>>, <<23, 59, 59, 999999>>}

ReferenceTimes ==
    {[year |-> d[1], month |-> d[2], day |-> d[3], hour |-> t[1],
      minute |-> t[2], second |-> t[3], microsecond |-> t[4]] :
        d \in ReferenceDates, t \in TimesOfDay}

InitTemporal ==
    /\ SystemInit
    /\ call \in {[NoCall EXCEPT !.fn = "parse_time_expression",
                                !.query = query,
                                !.reference_time = reference_time] :
                    query \in Queries(MaxQueryLen),
                    reference_time \in ReferenceTimes}

ParseTimeExpression ==
    /\ call.fn = "parse_time_expression"
    /\ ~call.returned
    /\ call' = [call EXCEPT
                   !.returned = TRUE,
                   !.parsed = parse_time_expression(call.query,
                                                    call.reference_time)]
    /\ UNCHANGED system

NextTemporal == ParseTimeExpression

SpecTemporal == InitTemporal /\ [][NextTemporal]_vars

\* parse_time_expression has returned for a query whose first matching
\* pattern is the k-th
ParsedWith(k) ==
    /\ call.returned /\ call.fn = "parse_time_expression"
    /\ Matching(call.query) # {}
    /\ FirstMatching(call.query) = k

\* 00:00:00.000000 of the day of ordinal ord
Midnight(ord) ==
    [ord |-> ord, hour |-> 0, minute |-> 0, second |-> 0, microsecond |-> 0]

\* C15: for a query with "today" and no earlier-declared pattern, and any
\* reference time now, the interval starts exactly at midnight
\* (00:00:00.000000) of now's day and ends at now.
C15_TodayFromMidnight ==
    ParsedWith(8) =>
        /\ call.parsed.time_start = <<Midnight(Instant(call.reference_time).ord)>>
        /\ call.parsed.time_end = <<Instant(call.reference_time)>>

\* C16: for a query with "this week" and no earlier-declared pattern, and
\* any reference time now, the interval starts exactly at Monday 00:00 of
\* now's ISO week and ends at now.
C16_ThisWeekFromMonday ==
    ParsedWith(7) =>
        LET now == Instant(call.reference_time)
        IN  /\ call.parsed.time_start = <<Midnight(now.ord - Weekday(now))>>
            /\ call.parsed.time_end = <<now>>

\* Instants around the two ends of the month that starts on day first and is
\* followed by the month that starts on day following.
Probes(first, following) ==
    {[ord |-> o, hour |-> t[1], minute |-> t[2], second |-> t[3],
      microsecond |-> t[4]] :
        o \in {first - 1, first, following - 1, following},
        t \in TimesOfDay \cup {<<23, 59, 59, 0>>}}

\* C17: for "in <month>" the interval covers the whole calendar month: an
\* instant t lies inside it exactly if (first day of the month 00:00) <= t <
\* (first day of the following month 00:00); the year is the reference year
\* if the month number <= the reference month, otherwise the previous year.
\* Inside is taken as the searches apply the interval: start <= t <= end.
C17_WholeCalendarMonth ==
    ParsedWith(6) =>
        LET m == Search(Patterns[6], call.query, 1)
            month == Months[Lower(Group1(call.query, m))]
            year  == IF month <= call.reference_time.month
                     THEN call.reference_time.year
                     ELSE call.reference_time.year - 1
            first == Ordinal(year, month, 1)
            following == first + DaysInMonth(year, month)
        IN  \A t \in Probes(first, following) :
                (first <= t.ord /\ t.ord < following)
                <=> (/\ NotAfter(call.parsed.time_start[1], t)
                     /\ NotAfter(t, call.parsed.time_end[1]))

\* C18: when a pattern matches, the residual is the query without the single
\* matched span: putting the matched phrase back where it was removed gives
\* exactly the query.
C18_ReinsertingGivesQuery ==
    (call.returned /\ call.fn = "parse_time_expression"
        /\ Matching(call.query) # {}) =>
        LET m == Search(Patterns[FirstMatching(call.query)], call.query, 1)
            phrase == SubSeq(call.query, m[1], m[2] - 1)
            residual == call.parsed.cleaned_query
        IN  /\ Len(residual) = Len(call.query) - Len(phrase)
            /\ SubSeq(residual, 1, m[1] - 1) \o phrase
                 \o SubSeq(residual, m[1], Len(residual)) = call.query

\* the words of a query, without its whitespace
Words(query) == SelectSeq(query, LAMBDA a : a # " ")

\* C19: with several temporal phrases the interval is that of the
\* earliest-declared pattern that matches, exactly the one phrase matched by
\* that pattern is removed and every other phrase, a second one of the same
\* pattern included, is left in the residual; when no pattern matches the
\* query is returned unchanged with no interval.
C19_OnlyFirstPhraseConsumed ==
    (call.returned /\ call.fn = "parse_time_expression") =>
        IF Matching(call.query) = {}
        THEN call.parsed = [cleaned_query |-> call.query,
                            time_start |-> None, time_end |-> None]
        ELSE LET k == FirstMatching(call.query)
                 m == Search(Patterns[k], call.query, 1)
                 interval == Handler(k, call.query, m, call.reference_time)
             IN  /\ call.parsed.time_start = <<interval[1]>>
                 /\ call.parsed.time_end = <<interval[2]>>
                 /\ Words(call.parsed.cleaned_query)
                      = Words(SubSeq(call.query, 1, m[1] - 1)
                              \o SubSeq(call.query, m[2], Len(call.query)))

\* ------------------------- the temporal filter of the searches (retrieval.py)
\* A datetime is a number of ticks here; a row is a Chunk joined with its
\* Document (and its ChunkEmbedding).

MaxTick == 2    \* largest datetime of a chunk, a document or an interval
MaxRows == 2    \* joined rows in the tables

\* time_start and time_end of a Chunk: both NULL or both set
TimeAnchors ==
    {[time_start |-> None, time_end |-> None]}
    \cup {[time_start |-> <<a>>, time_end |-> <<b>>] :
             <<a, b>> \in {x \in (0..MaxTick) \X (0..MaxTick) : x[1] <= x[2]}}

JoinedRows ==
    [user_id : Users, anchor : TimeAnchors, created_at : 0..MaxTick]

\* the tables of at most n joined rows
RECURSIVE TablesOf(_)
TablesOf(n) ==
    IF n = 0 THEN {{}}
    ELSE LET smaller == TablesOf(n - 1)
         IN  smaller \cup {t \cup {row} : t \in smaller, row \in JoinedRows}

Tables == TablesOf(MaxRows)

\* (time_start, time_end) as parse_time_expression returns them: no
\* interval, or both ends
Intervals ==
    {None} \cup {x \in (0..MaxTick) \X (0..MaxTick) : x[1] <= x[2]}

\* the WHERE clause _vector_search adds "if time_start and time_end"
VectorTemporalClause(row, time_start, time_end) ==
    \/ /\ row.anchor.time_start # None
       /\ row.anchor.time_start[1] <= time_end
       /\ row.anchor.time_end[1] >= time_start
    \/ /\ row.anchor.time_start = None
       /\ row.created_at >= time_start
       /\ row.created_at <= time_end

\* the WHERE clause _fulltext_search adds "if time_start and time_end"
FulltextTemporalClause(row, time_start, time_end) ==
    \/ /\ row.anchor.time_start # None
       /\ row.anchor.time_start[1] <= time_end
       /\ row.anchor.time_end[1] >= time_start
    \/ /\ row.anchor.time_start = None
       /\ row.created_at >= time_start
       /\ row.created_at <= time_end

InitWindow ==
    /\ SystemInit
    /\ call \in {[NoCall EXCEPT !.fn = "retrieve", !.user_id = u,
                                !.table = t, !.interval = i] :
                    u \in Users, t \in Tables, i \in Intervals}

\* _vector_search(user_id, query_embedding, top_k * 3, time_start, time_end)
VectorSearchInWindow ==
    /\ call.fn = "retrieve"
    /\ "vector" \notin call.searched
    /\ LET owned == {row \in call.table : row.user_id = call.user_id}
           kept  == IF call.interval = None THEN owned
                    ELSE {row \in owned :
                             VectorTemporalClause(row, call.interval[1],
                                                  call.interval[2])}
       IN  \E rows \in Limited(kept, TopK * 3) :
               call' = [call EXCEPT !.searched = @ \cup {"vector"},
                                    !.vector_results = rows]
    /\ UNCHANGED system

\* _fulltext_search(user_id, cleaned_query, top_k * 3, time_start, time_end):
\* which rows match the tsquery is up to their text; a failing statement
\* gives no rows
FulltextSearchInWindow ==
    /\ call.fn = "retrieve"
    /\ "vector" \in call.searched
    /\ "text" \notin call.searched
    /\ \E matching \in SUBSET {row \in call.table : row.user_id = call.user_id} :
          LET kept == IF call.interval = None THEN matching
                      ELSE {row \in matching :
                               FulltextTemporalClause(row, call.interval[1],
                                                      call.interval[2])}
          IN  \E rows \in Limited(kept, TopK * 3) \cup {{}} :
                  call' = [call EXCEPT !.searched = @ \cup {"text"},
                                       !.text_results = rows]
    /\ UNCHANGED system

NextWindow ==
    \/ VectorSearchInWindow
    \/ FulltextSearchInWindow

SpecWindow == InitWindow /\ [][NextWindow]_vars

\* C20: when the query yields an interval [ts, te), a chunk without a time
\* anchor is returned only if ts <= created_at < te of its document
\* (half-open: created exactly at te is excluded) and a chunk with a time
\* anchor only if its time range overlaps the interval, by the dense and by
\* the sparse search alike.
C20_HalfOpenWindow ==
    (call.fn = "retrieve" /\ call.interval # None) =>
        \A row \in call.vector_results \cup call.text_results :
            IF row.anchor.time_start = None
            THEN /\ call.interval[1] <= row.created_at
                 /\ row.created_at < call.interval[2]
            ELSE /\ row.anchor.time_start[1] <= call.interval[2]
                 /\ row.anchor.time_end[1] >= call.interval[1]

\* ============================================== claims C21 - C30

\* ------------------------------------ _merge_results and retrieve's cut
\* A search result is a (RetrievedChunk, score) pair, here the chunk_id and
\* the score; scores are whole numbers of tenths, the weights 0.7 and 0.3
\* are 7 and 3.

MaxResults == 2     \* rows one search returns
MaxChunkId == 3     \* chunk ids in the tables
MaxScore   == 1     \* largest dense or sparse score
MaxTopK    == 2     \* top_k passed to retrieve

vector_weight == 7
text_weight   == 3

Result(chunk_id, score) == [chunk_id |-> chunk_id, score |-> score]

\* dict assignment chunk_scores[key] = data: an existing key keeps its
\* place, a new key goes last
RECURSIVE DictSet(_, _)
DictSet(chunk_scores, data) ==
    IF chunk_scores = <<>> THEN <<data>>
    ELSE IF Head(chunk_scores).chunk_id = data.chunk_id
         THEN <<data>> \o Tail(chunk_scores)
         ELSE <<Head(chunk_scores)>> \o DictSet(Tail(chunk_scores), data)

HasKey(chunk_scores, chunk_id) ==
    \E i \in 1..Len(chunk_scores) : chunk_scores[i].chunk_id = chunk_id

\* for chunk, score in vector_results: ...
RECURSIVE VectorScoresLoop(_, _)
VectorScoresLoop(chunk_scores, vector_results) ==
    IF vector_results = <<>> THEN chunk_scores
    ELSE VectorScoresLoop(
             DictSet(chunk_scores,
                     [chunk_id     |-> Head(vector_results).chunk_id,
                      vector_score |-> Head(vector_results).score,
                      text_score   |-> 0]),
             Tail(vector_results))

\* for chunk, score in text_results: ...
RECURSIVE TextScoresLoop(_, _)
TextScoresLoop(chunk_scores, text_results) ==
    IF text_results = <<>> THEN chunk_scores
    ELSE LET chunk_id == Head(text_results).chunk_id
             score    == Head(text_results).score
             known    == CHOOSE i \in 1..Len(chunk_scores) :
                             chunk_scores[i].chunk_id = chunk_id
         IN  TextScoresLoop(
                 IF HasKey(chunk_scores, chunk_id)
                 THEN [chunk_scores EXCEPT ![known].text_score = score]
                 ELSE DictSet(chunk_scores,
                              [chunk_id     |-> chunk_id,
                               vector_score |-> 0,
                               text_score   |-> score]),
                 Tail(text_results))

\* (mutant) a combined score that leaves the weights out
CombinedScoreUnweighted(data) == data.vector_score + data.text_score

\* combined_score = vector_score * vector_weight + text_score * text_weight
CombinedScore(data) ==
    data.vector_score * vector_weight + data.text_score * text_weight

\* list.sort is stable: with reverse=True an element goes behind every
\* element whose score is at least its own
RECURSIVE InsertByScore(_, _)
InsertByScore(sorted, chunk) ==
    IF sorted = <<>> THEN <<chunk>>
    ELSE IF Head(sorted).score >= chunk.score
         THEN <<Head(sorted)>> \o InsertByScore(Tail(sorted), chunk)
         ELSE <<chunk>> \o sorted

RECURSIVE SortLoop(_, _)
SortLoop(sorted, results) ==
    IF results = <<>> THEN sorted
    ELSE SortLoop(InsertByScore(sorted, Head(results)), Tail(results))

\* (mutant) results left in dict order
SortByScoreMissing(results) == results

\* results.sort(key=lambda x: x.score, reverse=True)
SortByScore(results) == SortLoop(<<>>, results)

merge_results(vector_results, text_results) ==
    LET chunk_scores ==
            TextScoresLoop(VectorScoresLoop(<<>>, vector_results), text_results)
        results ==
            [i \in 1..Len(chunk_scores) |->
                Result(chunk_scores[i].chunk_id, CombinedScore(chunk_scores[i]))]
    IN  SortByScore(results)

\* merged[:top_k]
Take(seq, n) == SubSeq(seq, 1, Min(n, Len(seq)))

\* score = 1 - distance, the cosine distance lying between 0 and 2
DenseScores == -1..MaxScore

\* score = min(rank * 10, 1.0), ts_rank being non-negative
SparseScores == 0..MaxScore

\* The rows one search statement returns: ORDER BY distance / rank DESC puts
\* them in non-increasing order of score, a chunk appears once.
ResultLists(scores) ==
    {rows \in UNION {[1..n -> [chunk_id : 1..MaxChunkId, score : scores]] :
                        n \in 0..MaxResults} :
        \A i, k \in 1..Len(rows) :
            i < k => /\ rows[i].chunk_id # rows[k].chunk_id
                     /\ rows[i].score >= rows[k].score}

InitMerge ==
    /\ SystemInit
    /\ call \in {[NoCall EXCEPT !.fn = "vector_search", !.top_k = k,
                                !.dense = v, !.sparse_rows = t] :
                    k \in 1..MaxTopK, v \in ResultLists(DenseScores),
                    t \in ResultLists(SparseScores)}

\* vector_results = await self._vector_search(...): the statement may raise,
\* and retrieve has no handler for it
DenseSearch ==
    /\ call.fn = "vector_search"
    /\ \E ok \in BOOLEAN :
          call' = IF ok THEN [call EXCEPT !.fn = "fulltext_search"]
                  ELSE [call EXCEPT !.fn = "returned", !.raised = TRUE,
                                    !.dense = <<>>]
    /\ UNCHANGED system

\* text_results = await self._fulltext_search(...): the rows of the
\* statement, or [] from the except-branch when the statement raises
SparseSearch ==
    /\ call.fn = "fulltext_search"
    /\ \E ok \in BOOLEAN :
          call' = [call EXCEPT !.fn = "merge",
                               !.sparse = IF ok THEN call.sparse_rows ELSE <<>>,
                               !.sparse_failed = ~ok]
    /\ UNCHANGED system

\* merged = self._merge_results(...); return merged[:top_k]
MergeAndReturn ==
    /\ call.fn = "merge"
    /\ call' = [call EXCEPT !.fn = "returned",
                            !.passages = Take(merge_results(call.dense, call.sparse),
                                              call.top_k)]
    /\ UNCHANGED system

NextMerge ==
    \/ DenseSearch
    \/ SparseSearch
    \/ MergeAndReturn

SpecMerge == InitMerge /\ [][NextMerge]_vars

ScoreIn(results, chunk_id) ==
    IF \E i \in 1..Len(results) : results[i].chunk_id = chunk_id
    THEN results[CHOOSE i \in 1..Len(results) : results[i].chunk_id = chunk_id].score
    ELSE 0

IdsOf(results) == {results[i].chunk_id : i \in 1..Len(results)}

\* the fused score of a chunk, a side that did not return it counting zero
Fused(chunk_id) ==
    vector_weight * ScoreIn(call.dense, chunk_id)
    + text_weight * ScoreIn(call.sparse, chunk_id)

Retrieved == call.fn = "returned" /\ ~call.raised

\* C21: retrieve returns at most top_k passages, each chunk_id at most once,
\* in non-increasing order of fused score, the fused score of a chunk being
\* vector_weight * dense + text_weight * sparse with a missing side counted
\* as zero; the passages are the top_k highest-scoring entries of the union
\* of the dense and the sparse results.
C21_TopKByFusedScore ==
    Retrieved =>
        LET passages == call.passages
            union    == IdsOf(call.dense) \cup IdsOf(call.sparse)
        IN  /\ Len(passages) = Min(call.top_k, Cardinality(union))
            /\ \A i, k \in 1..Len(passages) :
                  i < k => /\ passages[i].chunk_id # passages[k].chunk_id
                           /\ passages[i].score >= passages[k].score
            /\ \A i \in 1..Len(passages) :
                  /\ passages[i].chunk_id \in union
                  /\ passages[i].score = Fused(passages[i].chunk_id)
            /\ \A id \in union \ IdsOf(passages) :
                  \A i \in 1..Len(passages) : Fused(id) <= passages[i].score

\* A chunk both searches returned and a chunk only the sparse search
\* returned compete for fewer places than there are chunks, and a chunk of
\* the sparse side comes out ahead of a dense one.
C21_Witness ==
    /\ Retrieved
    /\ IdsOf(call.dense) \cap IdsOf(call.sparse) # {}
    /\ IdsOf(call.sparse) \ IdsOf(call.dense) # {}
    /\ Cardinality(IdsOf(call.dense) \cup IdsOf(call.sparse)) > call.top_k
    /\ Len(call.passages) = 2
    /\ call.passages[1].chunk_id \notin IdsOf(call.dense)
    /\ call.passages[1].score > call.passages[2].score

\* C22: when the sparse statement raises, retrieve raises nothing and returns
\* the ranking of the dense results alone, each score vector_weight * dense.
C22_SparseFailureFallsBackToDense ==
    (call.fn = "returned" /\ call.sparse_failed) =>
        /\ ~call.raised
        /\ call.passages =
              [i \in 1..Min(call.top_k, Len(call.dense)) |->
                  Result(call.dense[i].chunk_id,
                         vector_weight * call.dense[i].score)]

\* The sparse statement raised although it had rows to give, and the dense
\* rows fill the answer.
C22_Witness ==
    /\ call.fn = "returned" /\ call.sparse_failed
    /\ call.sparse_rows # <<>>
    /\ Len(call.passages) = 2
    /\ call.passages[1].score > 0

\* ------------------------------------------ POST /chat/stream (chat.py)
\* generate() is the body of the StreamingResponse.  Each yield is an event
\* on the wire and a point where the client may go away; call.fn is the
\* statement generate() stands at.

MaxTokens == 3      \* tokens the answer generator yields

\* what llm_service.generate_answer_stream yields: non-empty strings
TokenTexts == {<<"a">>, <<" ", "a">>}

TokenStreams == UNION {[1..n -> TokenTexts] : n \in 0..MaxTokens}

\* citations of the retrieved chunks: none, or one
CitationLists == {<<>>, <<"chunk">>}

Event(type, data) == [type |-> type, data |-> data]

Message(role, content, citations) ==
    [role |-> role, content |-> content, citations |-> citations]

\* chat_stream up to "return StreamingResponse(generate(), ...)": the user
\* message is committed before the stream starts
InitStream ==
    /\ SystemInit
    /\ call \in {[NoCall EXCEPT !.fn = "yield_start", !.tokens = t,
                                !.citations = c,
                                !.messages = <<Message("user", <<"a">>, None)>>] :
                    t \in TokenStreams, c \in CitationLists}

Streaming ==
    call.fn \in {"yield_start", "yield_citations", "next_token", "save",
                 "yield_done"}

\* yield {'type': 'start', 'conversation_id': ...}
YieldStart ==
    /\ call.fn = "yield_start"
    /\ call' = [call EXCEPT !.fn = "yield_citations",
                            !.events = Append(@, Event("start", None))]
    /\ UNCHANGED system

\* yield {'type': 'citations', 'citations': citations_data}
YieldCitations ==
    /\ call.fn = "yield_citations"
    /\ call' = [call EXCEPT !.fn = "next_token",
                            !.events = Append(@, Event("citations", call.citations))]
    /\ UNCHANGED system

\* (mutant) a loop body that keeps the last token only
AccumulateLast(full_response, token) == token

\* full_response += token
Accumulate(full_response, token) == full_response \o token

\* async for token in llm_service.generate_answer_stream(...): the generator
\* yields its next token, ends, or raises
NextToken ==
    /\ call.fn = "next_token"
    /\ \/ /\ call.produced < Len(call.tokens)
          /\ LET token == call.tokens[call.produced + 1] IN
             call' = [call EXCEPT
                         !.produced = @ + 1,
                         !.full_response = Accumulate(@, token),
                         !.events = Append(@, Event("token", token))]
       \/ /\ call.produced = Len(call.tokens)
          /\ call' = [call EXCEPT !.fn = "save", !.exhausted = TRUE]
       \/ call' = [call EXCEPT !.fn = "raised", !.raised = TRUE]
    /\ UNCHANGED system

\* db.add(Message(role="assistant", content=full_response, ...));
\* await db.commit()
SaveAssistantMessage ==
    /\ call.fn = "save"
    /\ \E ok \in BOOLEAN :
          call' = IF ok
                  THEN [call EXCEPT
                           !.fn = "yield_done",
                           !.messages =
                               Append(@, Message("assistant", call.full_response,
                                                 IF call.citations # <<>>
                                                 THEN call.citations ELSE None))]
                  ELSE [call EXCEPT !.fn = "raised", !.raised = TRUE]
    /\ UNCHANGED system

\* yield {'type': 'done', 'message_id': ...}
YieldDone ==
    /\ call.fn = "yield_done"
    /\ call' = [call EXCEPT !.fn = "closed",
                            !.events = Append(@, Event("done", None))]
    /\ UNCHANGED system

\* The client disconnects: the task running generate() is cancelled where
\* it is suspended, and nothing after that statement runs.
CancelStream ==
    /\ Streaming
    /\ call' = [call EXCEPT !.fn = "cancelled", !.cancelled_at = call.fn]
    /\ UNCHANGED system

NextStream ==
    \/ YieldStart
    \/ YieldCitations
    \/ NextToken
    \/ SaveAssistantMessage
    \/ YieldDone
    \/ CancelStream

SpecStream == InitStream /\ [][NextStream]_vars

RECURSIVE Concat(_)
Concat(tokens) ==
    IF tokens = <<>> THEN <<>> ELSE Head(tokens) \o Concat(Tail(tokens))

IsStreamCall == call.tokens # <<>> \/ call.events # <<>> \/ call.messages # <<>>

AssistantMessages ==
    {i \in 1..Len(call.messages) : call.messages[i].role = "assistant"}

\* the events of a complete response
CompleteEvents ==
    <<Event("start", None), Event("citations", call.citations)>>
    \o [i \in 1..Len(call.tokens) |-> Event("token", call.tokens[i])]
    \o <<Event("done", None)>>

\* C23: the events of a /chat/stream response are start, citations, one
\* token event per generated token in generator order, then done; the
\* assistant message, the concatenation of all tokens, is persisted only
\* after the generator is exhausted and before done is emitted; a stream
\* cancelled before exhaustion persists no assistant message.
C23_StreamOrderAndPersistence ==
    IsStreamCall =>
        /\ Len(call.events) <= Len(CompleteEvents)
        /\ call.events = SubSeq(CompleteEvents, 1, Len(call.events))
        /\ call.fn = "closed" => call.events = CompleteEvents
        /\ Cardinality(AssistantMessages) <= 1
        /\ \A i \in AssistantMessages :
              /\ call.exhausted
              /\ call.messages[i].content = Concat(call.tokens)
        /\ (call.events # <<>> /\ call.events[Len(call.events)].type = "done") =>
              AssistantMessages # {}
        /\ (call.fn = "cancelled" /\ ~call.exhausted) => AssistantMessages = {}

\* A response of three tokens ran to its end and its message is stored.
C23_Witness ==
    /\ call.fn = "closed"
    /\ Len(call.tokens) = 3
    /\ call.tokens[1] # call.tokens[2]
    /\ AssistantMessages # {}

\* --------------------------------- the title of ingest_text (pipeline.py)

TitleLimit  == 100  \* the 100 of text[:100] and len(text) > 100
MaxEdgeLen  == 2    \* characters at each end of a text that vary
MaxTitleLen == 1    \* characters of a provided title

Ellipsis == <<".", ".", ".">>

\* text[:n]
Prefix(text, n) == SubSeq(text, 1, Min(n, Len(text)))

\* title=title or text[:100].strip() + "..." if len(text) > 100
\*       else text.strip()
\* The conditional expression binds weaker than "or": the provided title is
\* looked at only in the branch of the long texts.
DocumentTitle(title, text) ==
    IF Len(text) > TitleLimit
    THEN IF title # None /\ title[1] # <<>>
         THEN title[1]
         ELSE Strip(Prefix(text, TitleLimit)) \o Ellipsis
    ELSE Strip(text)

\* texts around the limit: both ends vary, the middle is filler
Filler(n) == [i \in 1..n |-> "a"]

FillerLengths == {0} \cup ((TitleLimit - 2 * MaxEdgeLen)..TitleLimit)

Texts ==
    {head \o Filler(n) \o tail :
        head \in Strings(MaxEdgeLen), tail \in Strings(MaxEdgeLen),
        n \in FillerLengths}

\* IngestTextRequest.title: Optional[str]
Titles == {None} \cup {<<t>> : t \in StringsOver({"t"}, MaxTitleLen)}

InitTitle ==
    /\ SystemInit
    /\ call \in {[NoCall EXCEPT !.fn = "ingest_text", !.text = text,
                                !.title = title] :
                    text \in Texts, title \in Titles}

\* doc = Document(..., title=..., content_text=text, ...)
NewTextDocument ==
    /\ call.fn = "ingest_text"
    /\ ~call.returned
    /\ call' = [call EXCEPT !.returned = TRUE,
                            !.doc_title = DocumentTitle(call.title, call.text)]
    /\ UNCHANGED system

NextTitle == NewTextDocument

SpecTitle == InitTitle /\ [][NextTitle]_vars

\* C24: the stored title of a text document is the provided title whenever
\* one is given, for every text length; otherwise the first 100 characters
\* of the text followed by an ellipsis when the text is longer than 100
\* characters, and the whole text when it is not.
C24_TitleOfTextDocument ==
    (call.fn = "ingest_text" /\ call.returned) =>
        call.doc_title =
            IF call.title # None THEN call.title[1]
            ELSE IF Len(call.text) > TitleLimit
                 THEN Prefix(call.text, TitleLimit) \o Ellipsis
                 ELSE call.text

\* ------------------------------------------- stages and the work they name

\* The stage whose work a statement of the try block performs: transcription
\* yields EXTRACTED, chunking CHUNKED, embed_texts and the chunk writes
\* EMBEDDED.
StageOfWork(label) ==
    CASE label = "transcribe"  -> "EXTRACTED"
      [] label = "chunk"       -> "CHUNKED"
      [] label = "embed"       -> "EMBEDDED"
      [] label = "write_chunk" -> "EMBEDDED"

WorkSteps == {"transcribe", "chunk", "embed", "write_chunk"}

\* C25: at every point of an ingestion the stage on the job names a stage
\* whose work has completed: while transcription, chunking or embedding is
\* in progress, and when it raises or the request is interrupted in it, the
\* job's stage lies before the stage of that work.
C25_StageNamesCompletedWork ==
    [][\A r \in Reqs :
          (IsIngest(r) /\ pc[r] \in WorkSteps) =>
             /\ StageRank(mem[r].job.stage) < StageRank(StageOfWork(pc[r]))
             /\ pc'[r] \in {"failed", "cancelled"} =>
                   StageRank(mem'[r].job.stage) < StageRank(StageOfWork(pc[r]))]_vars

\* ------------------------------- the PDF extractors (ingestion/documents.py)

RECURSIVE PdfFallbackLoop(_, _, _)
\* the loop of _process_pdf_fallback over enumerate(reader.pages, start=1)
PdfFallbackLoop(pages, page_num, char_offset) ==
    IF page_num > Len(pages) THEN [text_parts |-> <<>>, page_boundaries |-> <<>>]
    ELSE LET page_text  == pages[page_num]
             page_start == char_offset
             advanced   == char_offset + Len(page_text) + 1
         IN  IF Strip(page_text) # <<>>
             THEN LET rest == PdfFallbackLoop(pages, page_num + 1, advanced) IN
                  [text_parts |-> <<page_text>> \o rest.text_parts,
                   page_boundaries |->
                       << <<page_num, page_start, advanced - 1>> >>
                       \o rest.page_boundaries]
             ELSE PdfFallbackLoop(pages, page_num + 1, char_offset)

\* _process_pdf_fallback: the text and page_boundaries of its
\* ExtractedDocument
process_pdf_fallback(pages) ==
    LET parts == PdfFallbackLoop(pages, 1, 0)
    IN  [text |-> JoinLines(parts.text_parts),
         page_boundaries |-> parts.page_boundaries]

InitPdf ==
    /\ SystemInit
    /\ call \in {[NoCall EXCEPT !.fn = "process_pdf", !.pages = pages,
                                !.pdfplumber_fails = fails] :
                    pages \in PdfFiles, fails \in BOOLEAN}

\* _process_pdf returns what it extracted with pdfplumber
ProcessPdf ==
    /\ call.fn = "process_pdf"
    /\ ~call.returned
    /\ ~call.pdfplumber_fails
    /\ call' = [call EXCEPT !.returned = TRUE,
                            !.text = process_pdf(call.pages).text,
                            !.page_boundaries =
                                process_pdf(call.pages).page_boundaries]
    /\ UNCHANGED system

\* except Exception: return await self._process_pdf_fallback(file_path)
ProcessPdfFallback ==
    /\ call.fn = "process_pdf"
    /\ ~call.returned
    /\ call.pdfplumber_fails
    /\ call' = [call EXCEPT !.returned = TRUE,
                            !.text = process_pdf_fallback(call.pages).text,
                            !.page_boundaries =
                                process_pdf_fallback(call.pages).page_boundaries]
    /\ UNCHANGED system

NextPdf ==
    \/ ProcessPdf
    \/ ProcessPdfFallback

SpecPdf == InitPdf /\ [][NextPdf]_vars

\* C26: the page_boundaries of an extracted PDF partition its text: the
\* first interval starts at 0, each next one starts where the previous one
\* ends, the last ends at len(text), and every character offset of the text
\* lies in exactly one half-open interval.
C26_PagesPartitionText ==
    (call.fn = "process_pdf" /\ call.returned) =>
        LET b == call.page_boundaries IN
        /\ b # <<>> => b[1][2] = 0 /\ b[Len(b)][3] = Len(call.text)
        /\ \A i \in 2..Len(b) : b[i][2] = b[i - 1][3]
        /\ \A offset \in 0..(Len(call.text) - 1) :
              Cardinality({i \in 1..Len(b) :
                              b[i][2] <= offset /\ offset < b[i][3]}) = 1

\* --------------------------------------------- what the stored tables hold

\* the documents session q can read that are not of its own transaction
VisibleToOthers(q) == Visible(q).documents \ tx[q].documents

\* C27: in every committed state every Document is COMPLETED with
\* ingested_at set and has exactly one IngestionJob, which is COMPLETED at
\* stage INDEXED; no session reads a QUEUED, RUNNING or FAILED document of
\* another session.
C27_OnlyCompletedDocumentsStored ==
    /\ \A d \in db.documents :
          /\ d.status = "COMPLETED"
          /\ d.ingested_at
          /\ Cardinality(JobsOf(db, d.id)) = 1
          /\ \A j \in JobsOf(db, d.id) :
                j.status = "COMPLETED" /\ j.stage = "INDEXED"
    /\ \A q \in Reqs : \A d \in VisibleToOthers(q) :
          d.status \notin {"QUEUED", "RUNNING", "FAILED"}

\* A document is stored while another ingestion has failed in a step.
C27_Witness ==
    /\ db.documents # {}
    /\ \E r \in Reqs :
          /\ pc[r] = "failed" /\ IsIngest(r)
          /\ mem[r].doc.status = "FAILED"

\* --------------------------------- get_or_create_user (api/dependencies.py)
\* Every request resolves its X-User-Email header on its own session before
\* its handler runs.  call.users is the committed users table, call.step[r]
\* the statement request r stands at, call.user[r] the User it holds.

MaxUsers == 2       \* distinct X-User-Email values

Emails == 1..MaxUsers

\* User(email=email); the id is a fresh uuid
User(id, email) == [id |-> id, email |-> email]

\* the users table before the requests arrive: emails are unique
UserTables ==
    {{User(e, e) : e \in known} : known \in SUBSET Emails}

InitUsers ==
    /\ SystemInit
    /\ call \in {[NoCall EXCEPT !.fn = "get_or_create_user", !.users = t,
                                !.email = e,
                                !.step = [r \in Reqs |-> "select"],
                                !.user = [r \in Reqs |-> None]] :
                    t \in UserTables, e \in [Reqs -> Emails]}

\* result = await db.execute(select(User).where(User.email == email));
\* user = result.scalar_one_or_none()
SelectUser(r) ==
    /\ call.fn = "get_or_create_user"
    /\ call.step[r] = "select"
    /\ LET found == {u \in call.users : u.email = call.email[r]} IN
       call' = IF found # {}
               THEN [call EXCEPT !.step[r] = "return",
                                 !.user[r] = <<CHOOSE u \in found : TRUE>>]
               ELSE [call EXCEPT !.step[r] = "insert"]
    /\ UNCHANGED system

\* email: unique=True
EmailTaken(users, email) == \E u \in users : u.email = email

\* user = User(email=email); db.add(user); await db.commit(): the INSERT
\* violates the unique constraint when the email was committed meanwhile,
\* and the IntegrityError leaves the dependency
InsertUser(r) ==
    /\ call.fn = "get_or_create_user"
    /\ call.step[r] = "insert"
    /\ LET user == User(MaxUsers + Cardinality(call.users) + 1, call.email[r]) IN
       call' = IF EmailTaken(call.users, call.email[r])
               THEN [call EXCEPT !.step[r] = "failed"]
               ELSE [call EXCEPT !.step[r] = "refresh",
                                 !.users = @ \cup {user},
                                 !.user[r] = <<user>>]
    /\ UNCHANGED system

\* await db.refresh(user)
RefreshUser(r) ==
    /\ call.fn = "get_or_create_user"
    /\ call.step[r] = "refresh"
    /\ call' = [call EXCEPT !.step[r] = "return"]
    /\ UNCHANGED system

NextUsers ==
    \E r \in Reqs :
        \/ SelectUser(r)
        \/ InsertUser(r)
        \/ RefreshUser(r)

SpecUsers == InitUsers /\ [][NextUsers]_vars

IsUsersCall == call.fn = "get_or_create_user"

\* C28: when two requests with the same previously unseen email are handled
\* concurrently, both resolve to the same single User row and neither
\* fails; at no time do two users with the same email exist.
C28_ConcurrentFirstRequests ==
    IsUsersCall =>
        /\ \A u, v \in call.users : u.email = v.email => u = v
        /\ \A r, q \in Reqs :
              (r # q /\ call.email[r] = call.email[q]) =>
                 /\ call.step[r] # "failed"
                 /\ (call.step[r] = "return" /\ call.step[q] = "return") =>
                       call.user[r] = call.user[q]

\* ------------------------------------------------------- the staged files

\* no request is being handled
Quiescent == \A r \in Reqs : ~InFlight(r)

\* the stored documents whose source_uri is the staged file f
DocumentsAt(f) == {d \in db.documents : d.source_uri = f}

\* C29: after any sequence of file ingestions (successful or failing) and
\* document deletions, every staged file is the source_uri of exactly one
\* existing Document.
C29_StagedFilesHaveTheirDocument ==
    Quiescent => \A f \in files : Cardinality(DocumentsAt(f)) = 1

\* ------------------ embed_texts and the zip of _create_chunks_with_embeddings
\* The vector the provider computes for a text is written EmbeddingOf(text);
\* response.data is a list of items, each with the index of its input and
\* the vector of that input.

MaxBatch == 3       \* chunks of one document

ChunkTexts == {"x", "y", "z"}

EmbeddingOf(text) == <<"embedding", text>>

\* chunks_data of a document: the chunker gives each chunk its own text here
ChunkBatches ==
    {texts \in UNION {[1..n -> ChunkTexts] : n \in 0..MaxBatch} :
        \A i, k \in 1..Len(texts) : i < k => texts[i] # texts[k]}

\* what the provider may answer for the inputs: items for some of the
\* inputs, in any order, each index (zero-based) at most once
Responses(texts) ==
    {[i \in 1..Len(order) |->
         [index |-> order[i] - 1, embedding |-> EmbeddingOf(texts[order[i]])]] :
       order \in {o \in UNION {[1..n -> 1..Len(texts)] : n \in 0..Len(texts)} :
                     \A i, k \in 1..Len(o) : i < k => o[i] # o[k]}}

\* sorted(response.data, key=lambda x: x.index): stable, ascending
RECURSIVE InsertByIndex(_, _)
InsertByIndex(sorted, item) ==
    IF sorted = <<>> THEN <<item>>
    ELSE IF Head(sorted).index <= item.index
         THEN <<Head(sorted)>> \o InsertByIndex(Tail(sorted), item)
         ELSE <<item>> \o sorted

RECURSIVE SortByIndexLoop(_, _)
SortByIndexLoop(sorted, data) ==
    IF data = <<>> THEN sorted
    ELSE SortByIndexLoop(InsertByIndex(sorted, Head(data)), Tail(data))

\* EmbeddingService.embed_texts, given the provider's response
embed_texts(texts, response) ==
    IF texts = <<>> THEN <<>>
    ELSE LET sorted_data == SortByIndexLoop(<<>>, response)
         IN  [i \in 1..Len(sorted_data) |-> sorted_data[i].embedding]

\* for chunk_data, embedding in zip(chunks_data, embeddings): one Chunk and
\* one ChunkEmbedding per pair
ZipRows(chunks_data, embeddings) ==
    [i \in 1..Min(Len(chunks_data), Len(embeddings)) |->
        [chunk_index |-> i - 1, text |-> chunks_data[i],
         embedding |-> embeddings[i]]]

InitEmbed ==
    /\ SystemInit
    /\ call \in UNION {{[NoCall EXCEPT !.fn = "embed", !.texts = texts,
                                        !.response = response] :
                             response \in Responses(texts)} :
                          texts \in ChunkBatches}

\* embeddings = await embedding_service.embed_texts(texts); with no chunks
\* _create_chunks_with_embeddings returns before it; the request may raise
EmbedBatch ==
    /\ call.fn = "embed"
    /\ \/ /\ call.texts = <<>>
          /\ call' = [call EXCEPT !.fn = "mark_complete"]
       \/ /\ call.texts # <<>>
          /\ call' = [call EXCEPT !.fn = "write",
                                  !.embeddings = embed_texts(call.texts,
                                                             call.response)]
       \/ /\ call.texts # <<>>
          /\ call' = [call EXCEPT !.fn = "failed", !.raised = TRUE]
    /\ UNCHANGED system

\* the zip loop of _create_chunks_with_embeddings
WriteBatch ==
    /\ call.fn = "write"
    /\ call' = [call EXCEPT !.fn = "mark_complete",
                            !.rows = ZipRows(call.texts, call.embeddings)]
    /\ UNCHANGED system

\* _update_job_stage(job, INDEXED); job.status = doc.status = COMPLETED;
\* commit
CompleteBatch ==
    /\ call.fn = "mark_complete"
    /\ call' = [call EXCEPT !.fn = "done", !.completed = TRUE]
    /\ UNCHANGED system

NextEmbed ==
    \/ EmbedBatch
    \/ WriteBatch
    \/ CompleteBatch

SpecEmbed == InitEmbed /\ [][NextEmbed]_vars

\* C30: whenever an ingestion ends COMPLETED, as many chunks are persisted
\* as the chunker produced and the i-th persisted chunk carries the
\* embedding computed for its own text, also when the provider answers out
\* of order; with fewer vectors than texts the ingestion does not complete.
C30_EveryChunkWithItsOwnEmbedding ==
    call.completed =>
        /\ Len(call.rows) = Len(call.texts)
        /\ \A i \in 1..Len(call.rows) :
              /\ call.rows[i].text = call.texts[i]
              /\ call.rows[i].embedding = EmbeddingOf(call.rows[i].text)

====
